---- MODULE Spec2Model ----
(***************************************************************************)
(* Orchestration core of datawise-ai: agent selectors (team/selector.py), *)
(* termination conditions (team/termination_conditions.py), handoff rules *)
(* (team/handoffs.py), the team factories (team/analyzer_gpt.py) and the   *)
(* session runners (main.py, api/endpoints.py, streamlit_app.py).          *)
(*                                                                         *)
(* Text is a sequence of one-character strings, so that lower-casing and   *)
(* substring search are computed the way Python computes them.             *)
(***************************************************************************)
EXTENDS Integers, Sequences, FiniteSets, TLC

VARIABLES
    \* ---- selectors (team/selector.py)
    agents,          \* the roster handed to the selectors (agent names, in order)
    current_index,   \* RoundRobinSelector.current_index
    rr_returned,     \* what RoundRobinSelector returned, call by call
    kw_called,       \* CustomAgentSelector.select_next_agent has been called
    kw_message,      \* last_message of the latest keyword-selector call
    kw_result,       \* what that call returned
    turn_count,      \* PrioritySelector.turn_count
    pr_returned,     \* what PrioritySelector returned, call by call
    \* ---- termination conditions (team/termination_conditions.py)
    messages,        \* the conversation history handed to the evaluators
    max_errors,      \* ErrorTermination.max_errors
    error_count,     \* ErrorTermination.error_count
    error_results,   \* what the ErrorTermination instance returned, call by call
    threshold,       \* StuckConversationTermination.threshold
    stuck_results,   \* what the StuckConversationTermination instance returned
    max_rounds,      \* max_rounds of TimeoutTermination / the factories (MAX_ROUNDS)
    round_count,     \* TimeoutTermination.round_count
    timeout_results, \* what the TimeoutTermination instance returned
    success_results, \* what the SuccessTermination instance returned
    standard_results,\* what create_standard_termination(max_rounds) returned
    team_results,    \* what create_data_analyzer_team's combined_termination returned
    succ_called,     \* a SuccessTermination instance was called on its own
    succ_history,    \* the history handed to its latest call
    succ_result,     \* what that call returned
    robust_error_count, \* error_count of create_robust_termination's ErrorTermination
    robust_results,  \* what create_robust_termination's composite returned
    \* ---- handoff rules (team/handoffs.py)
    handoff_rules,   \* AgentHandoff.handoff_rules
    hand_op,         \* the latest call made to the AgentHandoff instance
    hand_earlier,    \* other calls were made to the instance before that one
    gn_current,      \* current_agent, when the latest call is get_next_agent
    gn_context,      \* context of that call
    gn_result,       \* what that call returned
    hc_start,        \* start_agent, when the latest call is get_handoff_chain
    hc_length,       \* length of that call
    hc_chain,        \* the chain that call returned
    \* ---- workflow patterns (team/handoffs.py)
    wp_heap,         \* the lists earlier calls returned and the caller still holds
    wp_called,       \* create_handoff_pattern was called
    wp_type,         \* pattern_type of the latest call
    wp_raised,       \* that call raised ValueError
    wp_returned,     \* the items of the list that call returned
    \* ---- state store (utils/state_manager.py)
    sm_files,        \* the .json files of state_dir, by stem: content or NoFile
    sm_saved,        \* per session id, the state of its latest successful save
                     \* not followed by a delete of that id, else None
    sm_op,           \* the latest call made to the StateManager
    sm_id,           \* session_id of that call
    sm_keep_last,    \* keep_last of that call
    sm_before,       \* list_sessions() as that call found it
    sm_result,       \* what that call returned
    \* ---- one call of retry_async (utils/error_handlers.py)
    rt_max_retries,  \* max_retries of the call
    rt_delay,        \* delay of the call
    rt_named,        \* whether func has a __name__
    rt_pc,           \* where the call is: "idle", "loop", "returned", "raised"
    rt_attempt,      \* the loop variable attempt
    rt_calls,        \* how many times func was invoked
    rt_waits,        \* the waits handed to asyncio.sleep, in order
    rt_last_exception, \* last_exception
    rt_result,       \* what the call returned or raised
    \* ---- the module-level metrics_tracker and the api jobs using it
    mt_dicts,        \* the task dictionaries start_task created, by identity
    mt_current_task, \* MetricsTracker._current_task: which dictionary, 0 if unset
    mt_task_start_time, \* whether MetricsTracker._task_start_time is set
    mt_tasks,        \* current_session['tasks']: the dictionaries appended
    mt_pc,           \* where each job is: "queued", "running", "ended", "raised"
    mt_status,       \* the status each job handed to end_task
    \* ---- a session (main.py, api/endpoints.py, streamlit_app.py, team/analyzer_gpt.py)
    runner,          \* who runs the session: "cli", "api", "web", or "direct"
    factory,         \* the team factory that built the session's team
    MAX_ROUNDS,      \* config.constants.MAX_ROUNDS as configured
    pc,              \* where the runner is
    docker_started,  \* the sandbox start has completed
    start_calls,     \* calls of start_docker_container
    stop_calls,      \* calls of stop_docker_container
    team_state,      \* "none" (not built), "Idle", "Running", "Stopped"
    history,         \* the team's conversation history
    speakers,        \* the agents invoked, turn by turn
    in_flight,       \* the agent whose invocation has not returned yet, or None
    agent_raised,    \* an agent invocation raised in this session
    job_status,      \* jobs[job_id]["status"] of the api job
    recorded,        \* statuses metrics_tracker.end_task recorded for the session
    result           \* what the runner returned

selVars == << agents, current_index, rr_returned,
              kw_called, kw_message, kw_result, turn_count, pr_returned >>

termVars == << messages, max_errors, error_count, error_results,
               threshold, stuck_results, max_rounds, round_count,
               timeout_results, success_results, standard_results, team_results,
               succ_called, succ_history, succ_result,
               robust_error_count, robust_results >>

handVars == << handoff_rules, hand_op, hand_earlier,
               gn_current, gn_context, gn_result,
               hc_start, hc_length, hc_chain >>

sessVars == << runner, factory, MAX_ROUNDS, pc, docker_started, start_calls,
               stop_calls, team_state, history, speakers, in_flight,
               agent_raised, job_status, recorded, result >>

patVars == << wp_heap, wp_called, wp_type, wp_raised, wp_returned >>

smVars == << sm_files, sm_saved, sm_op, sm_id, sm_keep_last, sm_before, sm_result >>

retVars == << rt_max_retries, rt_delay, rt_named, rt_pc, rt_attempt, rt_calls,
              rt_waits, rt_last_exception, rt_result >>

metVars == << mt_dicts, mt_current_task, mt_task_start_time, mt_tasks, mt_pc,
              mt_status >>

vars == << selVars, termVars, handVars, sessVars, patVars, smVars, retVars, metVars >>

-----------------------------------------------------------------------------
(* Bounds of the model *)

\* calls made to one selector instance
MaxCalls == 6

\* messages appended to one conversation history
MaxHistory == 4

\* largest configured threshold (max_errors, repetition_threshold, max_rounds)
MaxThreshold == 3

\* longest chain asked of get_handoff_chain
MaxChainLength == 5

\* most keys a handoff context dictionary holds
MaxContextKeys == 2

-----------------------------------------------------------------------------
(* Text: str.lower(), the `in` substring test, any(...) *)

UpperLetters ==
    <<"A","B","C","D","E","F","G","H","I","J","K","L","M",
      "N","O","P","Q","R","S","T","U","V","W","X","Y","Z">>

LowerLetters ==
    <<"a","b","c","d","e","f","g","h","i","j","k","l","m",
      "n","o","p","q","r","s","t","u","v","w","x","y","z">>

\* str.lower() on one character: an upper-case letter maps to its lower-case
\* letter, every other character is kept
LowerChar(c) ==
    IF \E i \in 1..Len(UpperLetters) : UpperLetters[i] = c
    THEN LowerLetters[CHOOSE i \in 1..Len(UpperLetters) : UpperLetters[i] = c]
    ELSE c

\* str.lower()
Lower(s) == [i \in 1..Len(s) |-> LowerChar(s[i])]

\* `keyword in content`: keyword occurs as a contiguous substring
Contains(content, keyword) ==
    \E i \in 1..(Len(content) - Len(keyword) + 1) :
        SubSeq(content, i, i + Len(keyword) - 1) = keyword

\* any(keyword in content for keyword in keywords)
ContainsAny(content, keywords) ==
    \E k \in 1..Len(keywords) : Contains(content, keywords[k])

Range(s) == { s[i] : i \in 1..Len(s) }

-----------------------------------------------------------------------------
(* Messages *)

\* the message classes a conversation holds; both belong to AgentMessage
AgentMessageTypes == { "TextMessage", "StopMessage" }

\* last_message = None (selector.py:192 hands None to a selector)
NoMessage == [ type |-> "None", content |-> << >> ]

TextMessage(c) == [ type |-> "TextMessage", content |-> c ]

StopMessage(c) == [ type |-> "StopMessage", content |-> c ]

\* isinstance(last_message, AgentMessage)
IsAgentMessage(m) == m.type \in AgentMessageTypes

-----------------------------------------------------------------------------
(* Agent names and rosters *)

Data_Analyzer == "Data_Analyzer"
Code_Executor == "Code_Executor"
Visualization_Specialist == "Visualization_Specialist"
Statistics_Analyst == "Statistics_Analyst"

\* Python's None where an agent (or an agent name) is expected: "no preference"
None == "None"

\* the participant lists the repository builds
Rosters ==
    { << Data_Analyzer, Code_Executor >>,
      << Data_Analyzer, Code_Executor, Visualization_Specialist, Statistics_Analyst >>,
      << Data_Analyzer, Visualization_Specialist, Code_Executor >>,
      << Data_Analyzer, Statistics_Analyst, Code_Executor >> }

-----------------------------------------------------------------------------
(* CustomAgentSelector *)

visualization_keywords ==
    << <<"p","l","o","t">>,
       <<"c","h","a","r","t">>,
       <<"g","r","a","p","h">>,
       <<"v","i","s","u","a","l","i","z","e">>,
       <<"v","i","s","u","a","l","i","z","a","t","i","o","n">>,
       <<"s","h","o","w"," ","m","e">> >>

statistics_keywords ==
    << <<"c","o","r","r","e","l","a","t","i","o","n">>,
       <<"r","e","g","r","e","s","s","i","o","n">>,
       <<"t","-","t","e","s","t">>,
       <<"a","n","o","v","a">>,
       <<"m","e","a","n">>,
       <<"m","e","d","i","a","n">>,
       <<"s","t","d">>,
       <<"s","t","a","t","i","s","t","i","c","a","l">> >>

code_executor_keywords ==
    << <<"r","u","n">>,
       <<"e","x","e","c","u","t","e">>,
       <<"e","r","r","o","r">>,
       <<"t","r","a","c","e","b","a","c","k">>,
       <<"i","n","s","t","a","l","l">> >>

data_analyzer_keywords ==
    << <<"a","n","a","l","y","z","e">>,
       <<"d","a","t","a">>,
       <<"d","a","t","a","s","e","t">>,
       <<"c","s","v">>,
       <<"l","o","a","d">>,
       <<"r","e","a","d">> >>

\* self.routing_keywords
routing_keywords ==
    [ visualization |-> visualization_keywords,
      statistics    |-> statistics_keywords,
      code_executor |-> code_executor_keywords,
      data_analyzer |-> data_analyzer_keywords ]

\* the outcome of a call that raised instead of returning
Raised == "Raised"

\* a lookup that raises when no agent of the roster has the name
FindAgentByNameRaises(roster, name) ==
    IF \E i \in 1..Len(roster) : roster[i] = name
    THEN roster[CHOOSE i \in 1..Len(roster) :
                    /\ roster[i] = name
                    /\ \A j \in 1..(i - 1) : roster[j] # name]
    ELSE Raised

\* _find_agent_by_name: the first agent of the list with that name, else None
FindAgentByName(roster, name) ==
    IF \E i \in 1..Len(roster) : roster[i] = name
    THEN roster[CHOOSE i \in 1..Len(roster) :
                    /\ roster[i] = name
                    /\ \A j \in 1..(i - 1) : roster[j] # name]
    ELSE None

\* a selector that tests the statistics keywords before the visualization ones
SelectNextAgentStatisticsFirst(roster, last_message) ==
    IF ~IsAgentMessage(last_message) THEN None
    ELSE LET content == Lower(last_message.content) IN
         IF ContainsAny(content, routing_keywords.statistics)
         THEN FindAgentByName(roster, Statistics_Analyst)
         ELSE IF ContainsAny(content, routing_keywords.visualization)
         THEN FindAgentByName(roster, Visualization_Specialist)
         ELSE IF ContainsAny(content, routing_keywords.code_executor)
         THEN FindAgentByName(roster, Code_Executor)
         ELSE IF ContainsAny(content, routing_keywords.data_analyzer)
         THEN FindAgentByName(roster, Data_Analyzer)
         ELSE None

\* a selector that picks the topic whose keyword comes first in the text
\* (position of the earliest keyword occurrence), not first in the check order
FirstOccurrence(content, keywords) ==
    LET hits == { i \in 1..Len(content) :
                    \E k \in 1..Len(keywords) :
                        /\ i + Len(keywords[k]) - 1 <= Len(content)
                        /\ SubSeq(content, i, i + Len(keywords[k]) - 1) = keywords[k] }
    IN  IF hits = {} THEN Len(content) + 1
        ELSE CHOOSE i \in hits : \A j \in hits : i <= j

SelectNextAgentFirstInText(roster, last_message) ==
    IF ~IsAgentMessage(last_message) THEN None
    ELSE LET content == Lower(last_message.content)
             pos == << FirstOccurrence(content, routing_keywords.visualization),
                       FirstOccurrence(content, routing_keywords.statistics),
                       FirstOccurrence(content, routing_keywords.code_executor),
                       FirstOccurrence(content, routing_keywords.data_analyzer) >>
             names == << Visualization_Specialist, Statistics_Analyst,
                         Code_Executor, Data_Analyzer >>
             best == CHOOSE i \in 1..4 :
                        \A j \in 1..4 : pos[i] < pos[j] \/ (pos[i] = pos[j] /\ i <= j)
         IN  IF pos[best] > Len(content) THEN None
             ELSE FindAgentByName(roster, names[best])

\* CustomAgentSelector.select_next_agent
SelectNextAgent(roster, last_message) ==
    IF ~IsAgentMessage(last_message) THEN None
    ELSE LET content == Lower(last_message.content) IN
         IF ContainsAny(content, routing_keywords.visualization)
         THEN FindAgentByName(roster, Visualization_Specialist)
         ELSE IF ContainsAny(content, routing_keywords.statistics)
         THEN FindAgentByName(roster, Statistics_Analyst)
         ELSE IF ContainsAny(content, routing_keywords.code_executor)
         THEN FindAgentByName(roster, Code_Executor)
         ELSE IF ContainsAny(content, routing_keywords.data_analyzer)
         THEN FindAgentByName(roster, Data_Analyzer)
         ELSE None

\* the texts handed to the selectors
Text_Plot_mean == <<"P","l","o","t"," ","m","e","a","n">>
Text_mean_plot == <<"m","e","a","n"," ","p","l","o","t">>
Text_Run_data  == <<"R","u","n"," ","d","a","t","a">>
Text_load_std  == <<"l","o","a","d"," ","s","t","d">>
Text_read      == <<"r","e","a","d">>
Text_hello     == <<"h","e","l","l","o">>
Text_Show_me   == <<"S","h","o","w"," ","m","e">>

SelectorTexts ==
    { Text_Plot_mean, Text_mean_plot, Text_Run_data, Text_load_std,
      Text_read, Text_hello, Text_Show_me }

SelectorMessages ==
    { TextMessage(c) : c \in SelectorTexts }
        \cup { StopMessage(Text_mean_plot), NoMessage }

\* one call of CustomAgentSelector.select_next_agent(agents, last_message)
KeywordSelect(last_message) ==
    /\ kw_called' = TRUE
    /\ kw_message' = last_message
    /\ kw_result' = SelectNextAgent(agents, last_message)
    /\ UNCHANGED << agents, current_index, rr_returned,
                    turn_count, pr_returned >>
    /\ UNCHANGED << termVars, handVars, sessVars, patVars, smVars, retVars, metVars >>

-----------------------------------------------------------------------------
(* RoundRobinSelector *)

\* a selector that indexes without wrapping around the roster
RoundRobinSelectNoWrap(last_message) ==
    /\ current_index < MaxCalls
    /\ rr_returned' = Append(rr_returned,
            IF current_index < Len(agents) THEN agents[current_index + 1]
            ELSE agents[Len(agents)])
    /\ current_index' = current_index + 1
    /\ UNCHANGED << agents, kw_called, kw_message, kw_result,
                    turn_count, pr_returned >>
    /\ UNCHANGED << termVars, handVars, sessVars, patVars, smVars, retVars, metVars >>

\* one call of RoundRobinSelector.select_next_agent(agents, last_message):
\* agents[self.current_index % len(agents)] (0-based), then the index grows;
\* last_message is not read
RoundRobinSelect(last_message) ==
    /\ current_index < MaxCalls
    /\ rr_returned' = Append(rr_returned,
                             agents[(current_index % Len(agents)) + 1])
    /\ current_index' = current_index + 1
    /\ UNCHANGED << agents, kw_called, kw_message, kw_result,
                    turn_count, pr_returned >>
    /\ UNCHANGED << termVars, handVars, sessVars, patVars, smVars, retVars, metVars >>

-----------------------------------------------------------------------------
(* PrioritySelector *)

\* self.priority_order
priority_order ==
    << Data_Analyzer, Code_Executor, Statistics_Analyst, Visualization_Specialist >>

\* a selector whose turn counter stops growing once the priority list is used up
PrioritySelectCounterStops(last_message) ==
    /\ Len(pr_returned) < MaxCalls
    /\ IF turn_count < Len(priority_order)
       THEN /\ pr_returned' = Append(pr_returned,
                    FindAgentByName(agents, priority_order[turn_count + 1]))
            /\ turn_count' = turn_count + 1
       ELSE /\ pr_returned' = Append(pr_returned, None)
            /\ turn_count' = turn_count
    /\ UNCHANGED << agents, current_index, rr_returned,
                    kw_called, kw_message, kw_result >>
    /\ UNCHANGED << termVars, handVars, sessVars, patVars, smVars, retVars, metVars >>

\* one call of PrioritySelector.select_next_agent(agents, last_message)
PrioritySelect(last_message) ==
    /\ turn_count < MaxCalls
    /\ IF turn_count < Len(priority_order)
       THEN pr_returned' = Append(pr_returned,
                FindAgentByName(agents, priority_order[turn_count + 1]))
       ELSE pr_returned' = Append(pr_returned, None)
    /\ turn_count' = turn_count + 1
    /\ UNCHANGED << agents, current_index, rr_returned,
                    kw_called, kw_message, kw_result >>
    /\ UNCHANGED << termVars, handVars, sessVars, patVars, smVars, retVars, metVars >>

-----------------------------------------------------------------------------
(* Termination conditions *)

success_keywords ==
    << <<"t","a","s","k"," ","c","o","m","p","l","e","t","e","d">>,
       <<"a","n","a","l","y","s","i","s"," ","c","o","m","p","l","e","t","e">>,
       <<"s","u","c","c","e","s","s","f","u","l","l","y"," ","s","a","v","e","d">>,
       <<"f","i","n","i","s","h","e","d">>,
       <<"d","o","n","e">>,
       <<"check_mark">> >>

error_keywords ==
    << <<"e","r","r","o","r">>,
       <<"e","x","c","e","p","t","i","o","n">>,
       <<"f","a","i","l","e","d">>,
       <<"t","r","a","c","e","b","a","c","k">> >>

TERMINATE == <<"T","E","R","M","I","N","A","T","E">>
STOP == <<"S","T","O","P">>

\* config.constants.TERMINATION_MSG (its default)
TERMINATION_MSG == TERMINATE

\* the defaults of the constructors' parameters
DefaultMaxErrors == 3
DefaultRepetitionThreshold == 3
DefaultMaxRounds == 15

\* messages[-1]
Last(msgs) == msgs[Len(msgs)]

\* messages[-n:] for 1 <= n <= len(messages)
LastN(msgs, n) == SubSeq(msgs, Len(msgs) - n + 1, Len(msgs))

\* a success rule that looks for the phrases in every message of the history
SuccessTerminationCallAnyMessage(msgs) ==
    \E i \in 1..Len(msgs) :
        /\ IsAgentMessage(msgs[i])
        /\ ContainsAny(Lower(msgs[i].content), success_keywords)

\* SuccessTermination.__call__
SuccessTerminationCall(msgs) ==
    IF msgs = << >> THEN FALSE
    ELSE IF IsAgentMessage(Last(msgs))
         THEN ContainsAny(Lower(Last(msgs).content), success_keywords)
         ELSE FALSE

\* an error counter that trips only when the count exceeds max_errors
ErrorTerminationCallOffByOne(count, maxErrors, msgs) ==
    IF msgs = << >> THEN [ result |-> FALSE, error_count |-> count ]
    ELSE IF /\ IsAgentMessage(Last(msgs))
            /\ ContainsAny(Lower(Last(msgs).content), error_keywords)
         THEN [ result |-> (count + 1 > maxErrors), error_count |-> count + 1 ]
         ELSE [ result |-> FALSE, error_count |-> count ]

\* an error counter that starts again from zero after a clean message
ErrorTerminationCallConsecutive(count, maxErrors, msgs) ==
    IF msgs = << >> THEN [ result |-> FALSE, error_count |-> count ]
    ELSE IF /\ IsAgentMessage(Last(msgs))
            /\ ContainsAny(Lower(Last(msgs).content), error_keywords)
         THEN [ result |-> (count + 1 >= maxErrors), error_count |-> count + 1 ]
         ELSE [ result |-> FALSE, error_count |-> 0 ]

\* ErrorTermination.__call__: the returned value and the counter after the call
ErrorTerminationCall(count, maxErrors, msgs) ==
    IF msgs = << >> THEN [ result |-> FALSE, error_count |-> count ]
    ELSE IF /\ IsAgentMessage(Last(msgs))
            /\ ContainsAny(Lower(Last(msgs).content), error_keywords)
         THEN [ result |-> (count + 1 >= maxErrors), error_count |-> count + 1 ]
         ELSE [ result |-> FALSE, error_count |-> count ]

\* TimeoutTermination.__call__: the returned value and round_count after the call
TimeoutTerminationCall(maxRounds, msgs) ==
    [ result |-> (Len(msgs) >= maxRounds), round_count |-> Len(msgs) ]

\* a stagnation test that only compares the last message with the one before
StuckConversationTerminationCallLastTwo(n, msgs) ==
    IF Len(msgs) < n THEN FALSE
    ELSE Len(msgs) >= 2 => Last(msgs).content = msgs[Len(msgs) - 1].content

\* StuckConversationTermination.__call__
StuckConversationTerminationCall(n, msgs) ==
    IF Len(msgs) < n THEN FALSE
    ELSE LET recent == LastN(msgs, n)
             agentMsgs == SelectSeq(recent, IsAgentMessage)
             contents == [ i \in 1..Len(agentMsgs) |-> agentMsgs[i].content ]
         IN  IF Len(contents) >= n
             THEN LET first_content == contents[1]
                      repetitions ==
                          Cardinality({ i \in 1..Len(contents) :
                                            contents[i] = first_content })
                  IN  repetitions >= n
             ELSE FALSE

\* autogen_agentchat.conditions.TextMentionTermination(token): true iff the
\* latest content contains the token (case-sensitive substring match)
TextMentionTermination(token, msgs) ==
    /\ msgs # << >>
    /\ Contains(Last(msgs).content, token)

\* autogen_agentchat.conditions.MaxMessageTermination(n): true iff the history
\* length reaches n
MaxMessageTermination(n, msgs) == Len(msgs) >= n

\* `a | b` of two termination conditions: stop if either says stop
OrTermination(a, b) == a \/ b

\* a standard termination whose round limit was left out of the combination
CreateStandardTerminationNoMaxMessage(maxRounds, msgs) ==
    LET text_termination ==
            OrTermination(TextMentionTermination(TERMINATE, msgs),
                          TextMentionTermination(STOP, msgs))
        success == SuccessTerminationCall(msgs)
    IN  OrTermination(text_termination, success)

\* create_standard_termination(max_rounds), evaluated on a history
CreateStandardTermination(maxRounds, msgs) ==
    LET text_termination ==
            OrTermination(TextMentionTermination(TERMINATE, msgs),
                          TextMentionTermination(STOP, msgs))
        max_message == MaxMessageTermination(maxRounds, msgs)
        success == SuccessTerminationCall(msgs)
    IN  OrTermination(OrTermination(text_termination, max_message), success)

\* a composite that stops calling its sub-rules once one of them said stop
CreateRobustTerminationShortCircuit(count, maxRounds, maxErrors, msgs) ==
    LET text_termination ==
            OrTermination(TextMentionTermination(TERMINATE, msgs),
                          TextMentionTermination(STOP, msgs))
        max_message == MaxMessageTermination(maxRounds, msgs)
        success == SuccessTerminationCall(msgs)
        earlier == OrTermination(OrTermination(text_termination, max_message),
                                 success)
        error_termination == ErrorTerminationCall(count, maxErrors, msgs)
        stuck_termination ==
            StuckConversationTerminationCall(DefaultRepetitionThreshold, msgs)
    IN  IF earlier
        THEN [ result |-> TRUE, error_count |-> count ]
        ELSE [ result |-> OrTermination(error_termination.result,
                                        stuck_termination),
               error_count |-> error_termination.error_count ]

\* create_robust_termination(max_rounds, max_errors), evaluated on a history:
\* the composite calls each of its sub-rules once, whatever the others return;
\* the value returned and the error rule's counter after the call
CreateRobustTermination(count, maxRounds, maxErrors, msgs) ==
    LET text_termination ==
            OrTermination(TextMentionTermination(TERMINATE, msgs),
                          TextMentionTermination(STOP, msgs))
        max_message == MaxMessageTermination(maxRounds, msgs)
        success == SuccessTerminationCall(msgs)
        error_termination == ErrorTerminationCall(count, maxErrors, msgs)
        stuck_termination ==
            StuckConversationTerminationCall(DefaultRepetitionThreshold, msgs)
    IN  [ result |->
              OrTermination(
                  OrTermination(
                      OrTermination(
                          OrTermination(text_termination, max_message),
                          success),
                      error_termination.result),
                  stuck_termination),
          error_count |-> error_termination.error_count ]

\* combined_termination of create_data_analyzer_team, evaluated on a history
TeamCombinedTermination(maxRounds, msgs) ==
    LET termination ==
            OrTermination(TextMentionTermination(TERMINATION_MSG, msgs),
                          TextMentionTermination(STOP, msgs))
        max_message_termination == MaxMessageTermination(maxRounds, msgs)
    IN  OrTermination(termination, max_message_termination)

\* the texts the agents produce in the conversations checked
Text_ok        == <<"o","k">>
Text_Failed    == <<"F","a","i","l","e","d">>
Text_STOP      == <<"S","T","O","P">>
Text_TERMINATE == <<"T","E","R","M","I","N","A","T","E","!">>
Text_Done      == <<"D","o","n","e">>

ConversationTexts ==
    { Text_ok, Text_Failed, Text_STOP, Text_TERMINATE, Text_Done }

ConversationMessages == { TextMessage(c) : c \in ConversationTexts }

\* one round: a message is appended to the history and every evaluator
\* instance is called once with the history
EvaluateRound(m) ==
    /\ Len(messages) < MaxHistory
    /\ messages' = Append(messages, m)
    /\ LET e == ErrorTerminationCall(error_count, max_errors, messages')
       IN  /\ error_count' = e.error_count
           /\ error_results' = Append(error_results, e.result)
    /\ LET t == TimeoutTerminationCall(max_rounds, messages')
       IN  /\ round_count' = t.round_count
           /\ timeout_results' = Append(timeout_results, t.result)
    /\ stuck_results' = Append(stuck_results,
            StuckConversationTerminationCall(threshold, messages'))
    /\ success_results' = Append(success_results, SuccessTerminationCall(messages'))
    /\ standard_results' = Append(standard_results,
            CreateStandardTermination(max_rounds, messages'))
    /\ team_results' = Append(team_results,
            TeamCombinedTermination(max_rounds, messages'))
    /\ LET r == CreateRobustTermination(robust_error_count, max_rounds,
                                        max_errors, messages')
       IN  /\ robust_error_count' = r.error_count
           /\ robust_results' = Append(robust_results, r.result)
    /\ UNCHANGED << max_errors, threshold, max_rounds,
                    succ_called, succ_history, succ_result >>
    /\ UNCHANGED << selVars, handVars, sessVars, patVars, smVars, retVars, metVars >>

\* the texts of the histories handed to a SuccessTermination instance
Text_check      == <<"r","u","n"," ","check_mark">>
Text_Unfinished == <<"U","n","f","i","n","i","s","h","e","d">>
Text_TASK       == <<"T","A","S","K"," ","C","o","m","p","l","e","t","e","d",".">>

SuccessTexts == { Text_ok, Text_Done, Text_check, Text_Unfinished, Text_TASK }

SuccessMessages == { TextMessage(c) : c \in SuccessTexts }

\* the caller's history grows by one message
AppendMessage(m) ==
    /\ Len(messages) < MaxHistory
    /\ messages' = Append(messages, m)
    /\ UNCHANGED << max_errors, error_count, error_results, threshold,
                    stuck_results, max_rounds, round_count, timeout_results,
                    success_results, standard_results, team_results,
                    succ_called, succ_history, succ_result,
                    robust_error_count, robust_results >>
    /\ UNCHANGED << selVars, handVars, sessVars, patVars, smVars, retVars, metVars >>

\* one call of a SuccessTermination instance with the caller's history, which
\* may be empty
CallSuccessTermination ==
    /\ succ_called' = TRUE
    /\ succ_history' = messages
    /\ succ_result' = SuccessTerminationCall(messages)
    /\ UNCHANGED << messages, max_errors, error_count, error_results, threshold,
                    stuck_results, max_rounds, round_count, timeout_results,
                    success_results, standard_results, team_results,
                    robust_error_count, robust_results >>
    /\ UNCHANGED << selVars, handVars, sessVars, patVars, smVars, retVars, metVars >>

\* one call of the ErrorTermination instance with the caller's history
CallErrorTermination ==
    /\ Len(error_results) < MaxHistory
    /\ LET e == ErrorTerminationCall(error_count, max_errors, messages)
       IN  /\ error_count' = e.error_count
           /\ error_results' = Append(error_results, e.result)
    /\ UNCHANGED << messages, max_errors, threshold, stuck_results, max_rounds,
                    round_count, timeout_results, success_results,
                    standard_results, team_results,
                    succ_called, succ_history, succ_result,
                    robust_error_count, robust_results >>
    /\ UNCHANGED << selVars, handVars, sessVars, patVars, smVars, retVars, metVars >>

\* one call of the TimeoutTermination instance with the caller's history
CallTimeoutTermination ==
    /\ Len(timeout_results) < MaxHistory
    /\ LET t == TimeoutTerminationCall(max_rounds, messages)
       IN  /\ round_count' = t.round_count
           /\ timeout_results' = Append(timeout_results, t.result)
    /\ UNCHANGED << messages, max_errors, error_count, error_results, threshold,
                    stuck_results, max_rounds, success_results,
                    standard_results, team_results,
                    succ_called, succ_history, succ_result,
                    robust_error_count, robust_results >>
    /\ UNCHANGED << selVars, handVars, sessVars, patVars, smVars, retVars, metVars >>

\* ErrorTermination(max_errors) and TimeoutTermination(max_rounds) are built
\* again, for a new team with a new history
NewEvaluators ==
    /\ error_results # << >> \/ timeout_results # << >>
    /\ messages' = << >>
    /\ error_count' = 0
    /\ error_results' = << >>
    /\ round_count' = 0
    /\ timeout_results' = << >>
    /\ UNCHANGED << max_errors, threshold, stuck_results, max_rounds,
                    success_results, standard_results, team_results,
                    succ_called, succ_history, succ_result,
                    robust_error_count, robust_results >>
    /\ UNCHANGED << selVars, handVars, sessVars, patVars, smVars, retVars, metVars >>

\* the evaluators as constructed, before any call
InitEvaluators ==
    /\ messages = << >>
    /\ error_count = 0
    /\ error_results = << >>
    /\ stuck_results = << >>
    /\ round_count = 0
    /\ timeout_results = << >>
    /\ success_results = << >>
    /\ standard_results = << >>
    /\ team_results = << >>
    /\ succ_called = FALSE
    /\ succ_history = << >>
    /\ succ_result = FALSE
    /\ robust_error_count = 0
    /\ robust_results = << >>

\* the evaluators constructed with their default parameters
InitTerminationDefault ==
    /\ InitEvaluators
    /\ max_errors = DefaultMaxErrors
    /\ threshold = DefaultRepetitionThreshold
    /\ max_rounds = DefaultMaxRounds

-----------------------------------------------------------------------------
(* Handoff rules *)

\* handoff rules in which the statistics specialist has no entry of its own
DefaultHandoffRulesWithoutStatistics ==
    [ Data_Analyzer |->
        [ next |-> << Code_Executor >>,
          conditions |-> << << "has_code", Code_Executor >>,
                            << "needs_stats", Statistics_Analyst >>,
                            << "needs_viz", Visualization_Specialist >> >> ],
      Code_Executor |->
        [ next |-> << Data_Analyzer >>,
          conditions |-> << << "error", Data_Analyzer >>,
                            << "success", Data_Analyzer >> >> ],
      Visualization_Specialist |->
        [ next |-> << Code_Executor >>,
          conditions |-> << << "ready", Code_Executor >> >> ] ]

\* AgentHandoff.__init__: per agent the 'next' list and the 'conditions'
\* dictionary, its items in declaration order (condition, target)
DefaultHandoffRules ==
    [ Data_Analyzer |->
        [ next |-> << Code_Executor >>,
          conditions |-> << << "has_code", Code_Executor >>,
                            << "needs_stats", Statistics_Analyst >>,
                            << "needs_viz", Visualization_Specialist >> >> ],
      Code_Executor |->
        [ next |-> << Data_Analyzer >>,
          conditions |-> << << "error", Data_Analyzer >>,
                            << "success", Data_Analyzer >> >> ],
      Visualization_Specialist |->
        [ next |-> << Code_Executor >>,
          conditions |-> << << "ready", Code_Executor >> >> ],
      Statistics_Analyst |->
        [ next |-> << Code_Executor >>,
          conditions |-> << << "ready", Code_Executor >> >> ] ]

\* context = None
NoContext == [ given |-> FALSE, flags |-> << >> ]

\* a context dictionary: condition name -> truth value
Context(flags) == [ given |-> TRUE, flags |-> flags ]

\* `if context`: a dictionary that is given and not empty
ContextTruthy(context) == context.given /\ DOMAIN context.flags # {}

\* context.get(condition), read as a truth value
ContextGet(context, condition) ==
    /\ condition \in DOMAIN context.flags
    /\ context.flags[condition]

\* the first item of the conditions, in order, that the context flags; 0 if none
FirstFlagged(conditions, context) ==
    IF \E i \in 1..Len(conditions) : ContextGet(context, conditions[i][1])
    THEN CHOOSE i \in 1..Len(conditions) :
            /\ ContextGet(context, conditions[i][1])
            /\ \A j \in 1..(i - 1) : ~ContextGet(context, conditions[j][1])
    ELSE 0

\* a lookup that takes the last flagged condition instead of the first
GetNextAgentLastFlagged(rules, current_agent, context) ==
    IF current_agent \notin DOMAIN rules THEN None
    ELSE LET r == rules[current_agent]
             hit == { i \in 1..Len(r.conditions) :
                        ContextGet(context, r.conditions[i][1]) }
         IN  IF ContextTruthy(context) /\ hit # {}
             THEN r.conditions[CHOOSE i \in hit : \A j \in hit : j <= i][2]
             ELSE IF r.next # << >> THEN r.next[1] ELSE None

\* AgentHandoff.get_next_agent(current_agent, context)
GetNextAgent(rules, current_agent, context) ==
    IF current_agent \notin DOMAIN rules THEN None
    ELSE LET r == rules[current_agent]
             hit == IF ContextTruthy(context)
                    THEN FirstFlagged(r.conditions, context)
                    ELSE 0
         IN  IF hit # 0 THEN r.conditions[hit][2]
             ELSE IF r.next # << >> THEN r.next[1]
             ELSE None

\* the loop of get_handoff_chain: `steps` iterations left
RECURSIVE ChainLoop(_, _, _, _)
ChainLoop(rules, chain, current, steps) ==
    IF steps <= 0 THEN chain
    ELSE LET next_agent == GetNextAgent(rules, current, NoContext)
         IN  IF next_agent # None
             THEN ChainLoop(rules, Append(chain, next_agent), next_agent, steps - 1)
             ELSE chain

\* a chain builder that stops when it comes back to an agent already in the chain
RECURSIVE ChainLoopBreakCycle(_, _, _, _)
ChainLoopBreakCycle(rules, chain, current, steps) ==
    IF steps <= 0 THEN chain
    ELSE LET next_agent == GetNextAgent(rules, current, NoContext)
         IN  IF next_agent # None /\ next_agent \notin Range(chain)
             THEN ChainLoopBreakCycle(rules, Append(chain, next_agent),
                                      next_agent, steps - 1)
             ELSE chain

GetHandoffChainBreakCycle(rules, start_agent, length) ==
    ChainLoopBreakCycle(rules, << start_agent >>, start_agent, length - 1)

\* AgentHandoff.get_handoff_chain(start_agent, length): range(length - 1)
\* iterations after chain = [start_agent]
GetHandoffChain(rules, start_agent, length) ==
    ChainLoop(rules, << start_agent >>, start_agent, length - 1)

\* the condition names put into contexts: names of the rules, and one that
\* no rule names
ConditionNames ==
    { "has_code", "needs_stats", "needs_viz", "error", "ready", "other" }

\* the agent names asked about: the four agents and one unknown name
Unknown_Agent == "Unknown_Agent"

AskedAgents ==
    { Data_Analyzer, Code_Executor, Visualization_Specialist,
      Statistics_Analyst, Unknown_Agent }

\* the contexts handed to get_next_agent: None, and the dictionaries of up to
\* MaxContextKeys condition names with true or false values
Contexts ==
    { NoContext } \cup
    { Context(f) : f \in UNION { [ K -> BOOLEAN ] :
                        K \in { S \in SUBSET ConditionNames :
                                    Cardinality(S) <= MaxContextKeys } } }

\* one call of get_next_agent; the instance keeps nothing of its calls, the
\* model records the latest one
CallGetNextAgent(current_agent, context) ==
    /\ hand_op' = "get_next_agent"
    /\ hand_earlier' = (hand_op # "none")
    /\ gn_current' = current_agent
    /\ gn_context' = context
    /\ gn_result' = GetNextAgent(handoff_rules, current_agent, context)
    /\ hc_start' = None
    /\ hc_length' = 0
    /\ hc_chain' = << >>
    /\ UNCHANGED handoff_rules
    /\ UNCHANGED << selVars, termVars, sessVars, patVars, smVars, retVars, metVars >>

\* one call of get_handoff_chain
CallGetHandoffChain(start_agent, length) ==
    /\ hand_op' = "get_handoff_chain"
    /\ hand_earlier' = (hand_op # "none")
    /\ hc_start' = start_agent
    /\ hc_length' = length
    /\ hc_chain' = GetHandoffChain(handoff_rules, start_agent, length)
    /\ gn_current' = None
    /\ gn_context' = NoContext
    /\ gn_result' = None
    /\ UNCHANGED handoff_rules
    /\ UNCHANGED << selVars, termVars, sessVars, patVars, smVars, retVars, metVars >>

\* AgentHandoff() as constructed, before any call
InitHandoff ==
    /\ handoff_rules = DefaultHandoffRules
    /\ hand_op = "none"
    /\ hand_earlier = FALSE
    /\ gn_current = None
    /\ gn_context = NoContext
    /\ gn_result = None
    /\ hc_start = None
    /\ hc_length = 0
    /\ hc_chain = << >>

-----------------------------------------------------------------------------
(* Workflow patterns *)

\* lists of earlier calls a caller keeps hold of
MaxHeld == 2

\* WorkflowPattern: the list literal each static method returns
simple_analysis == << Data_Analyzer, Code_Executor >>

\* a visualization pattern that runs code before the specialist is asked
visualization_workflow_code_first ==
    << Data_Analyzer, Code_Executor, Visualization_Specialist >>

visualization_workflow == << Data_Analyzer, Visualization_Specialist, Code_Executor >>
statistical_workflow == << Data_Analyzer, Statistics_Analyst, Code_Executor >>
comprehensive_workflow ==
    << Data_Analyzer, Statistics_Analyst, Visualization_Specialist, Code_Executor >>
iterative_workflow == << Data_Analyzer, Code_Executor, Data_Analyzer, Code_Executor >>

\* create_handoff_pattern: the patterns dictionary
patterns ==
    [ simple |-> simple_analysis,
      visualization |-> visualization_workflow,
      statistical |-> statistical_workflow,
      comprehensive |-> comprehensive_workflow,
      iterative |-> iterative_workflow ]

\* the pattern types asked for: the five known ones and one unknown
PatternTypes == DOMAIN patterns \cup { "unknown" }

\* the heap after a list is allocated: the caller holds the MaxHeld newest
Allocate(heap, pattern_type, items) ==
    LET grown == Append(heap, [ pattern |-> pattern_type, items |-> items ])
    IN  IF Len(grown) > MaxHeld THEN Tail(grown) ELSE grown

\* a factory that builds each pattern's list once and returns that same list
\* object on every later call
CreateHandoffPatternShared(heap, pattern_type) ==
    IF pattern_type \notin DOMAIN patterns
    THEN [ raised |-> TRUE, heap |-> heap, items |-> << >> ]
    ELSE IF \E i \in 1..Len(heap) : heap[i].pattern = pattern_type
         THEN LET i == CHOOSE j \in 1..Len(heap) : heap[j].pattern = pattern_type
              IN  [ raised |-> FALSE, heap |-> heap, items |-> heap[i].items ]
         ELSE [ raised |-> FALSE,
                heap |-> Allocate(heap, pattern_type, patterns[pattern_type]),
                items |-> patterns[pattern_type] ]

\* create_handoff_pattern(pattern_type): ValueError for an unknown type, else
\* the static method is called and its list literal builds a new list
CreateHandoffPattern(heap, pattern_type) ==
    IF pattern_type \notin DOMAIN patterns
    THEN [ raised |-> TRUE, heap |-> heap, items |-> << >> ]
    ELSE [ raised |-> FALSE,
           heap |-> Allocate(heap, pattern_type, patterns[pattern_type]),
           items |-> patterns[pattern_type] ]

\* one call of create_handoff_pattern
CallCreateHandoffPattern(pattern_type) ==
    /\ LET r == CreateHandoffPattern(wp_heap, pattern_type)
       IN  /\ wp_heap' = r.heap
           /\ wp_raised' = r.raised
           /\ wp_returned' = r.items
    /\ wp_called' = TRUE
    /\ wp_type' = pattern_type
    /\ UNCHANGED << selVars, termVars, handVars, sessVars, smVars, retVars, metVars >>

\* the caller changes a list it was returned: list.pop()
CallerPops(i) ==
    /\ i \in 1..Len(wp_heap)
    /\ wp_heap[i].items # << >>
    /\ wp_heap' = [ wp_heap EXCEPT ![i].items =
                        SubSeq(wp_heap[i].items, 1, Len(wp_heap[i].items) - 1) ]
    /\ UNCHANGED << wp_called, wp_type, wp_raised, wp_returned >>
    /\ UNCHANGED << selVars, termVars, handVars, sessVars, smVars, retVars, metVars >>

\* before any call of create_handoff_pattern
InitPatterns ==
    /\ wp_heap = << >>
    /\ wp_called = FALSE
    /\ wp_type = "none"
    /\ wp_raised = FALSE
    /\ wp_returned = << >>

-----------------------------------------------------------------------------
(* StateManager *)

\* largest keep_last handed to clear_old_sessions
MaxKeepLast == 3

\* Python values of the states handed to save_state
PyStr(v) == [ type |-> "str", v |-> v ]
PyInt(v) == [ type |-> "int", v |-> v ]
PySet == [ type |-> "set", v |-> "" ]

\* the states saved: dictionaries as sequences of (key, value) items, with a
\* string key, with an integer key, and with a value json cannot serialize
State_turn == << << PyStr("turn"), PyInt("1") >> >>
State_int_key == << << PyInt("1"), PyStr("a") >> >>
State_with_set == << << PyStr("turn"), PyInt("1") >>, << PyStr("seen"), PySet >> >>

StateValues == { State_turn, State_int_key, State_with_set }

\* the session ids used, as path components: 's1', 's2', 's3' and './s1'
SessionIds == { << "s1" >>, << "s2" >>, << "s3" >>, << ".", "s1" >> }

\* the file stems of state_dir, in the order sorted() gives them
StemOrder == << "s1", "s2", "s3" >>

\* self.state_dir / f"{session_id}.json": pathlib drops '.' components
StateFile(session_id) ==
    LET parts == SelectSeq(session_id, LAMBDA c : c # ".")
    IN  parts[Len(parts)]

\* a file of state_dir: absent, cut short by a failed dump, or complete json
NoFile == [ kind |-> "none", state |-> << >> ]
PartialFile == [ kind |-> "partial", state |-> << >> ]
JsonFile(state) == [ kind |-> "json", state |-> state ]

\* what load_state returns: None, or a state
NoState == [ found |-> FALSE, state |-> << >> ]
SomeState(state) == [ found |-> TRUE, state |-> state ]

\* json.dump of a dictionary: integer keys are written as strings, a value of
\* an unsupported type raises TypeError after the file was opened for writing
JsonSerializable(state) ==
    \A i \in 1..Len(state) : state[i][2].type \in { "str", "int" }

\* json.dump followed by json.load: keys come back as strings; a value json
\* cannot serialize leaves a partial file
JsonDump(state) ==
    IF JsonSerializable(state)
    THEN JsonFile([ i \in 1..Len(state) |-> << PyStr(state[i][1].v), state[i][2] >> ])
    ELSE PartialFile

\* list_sessions(): the stems of the *.json files, sorted
ListSessions(files) == SelectSeq(StemOrder, LAMBDA st : files[st].kind # "none")

\* seq[:stop] of Python
SliceTo(seq, stop) ==
    LET n == Len(seq)
        last == IF stop < 0
                THEN (IF n + stop < 0 THEN 0 ELSE n + stop)
                ELSE (IF stop > n THEN n ELSE stop)
    IN  SubSeq(seq, 1, last)

\* clear_old_sessions: sessions[:-keep_last] if len(sessions) > keep_last else []
ToDelete(sessions, keep_last) ==
    IF Len(sessions) > keep_last
    THEN SliceTo(sessions, 0 - keep_last)
    ELSE << >>

\* save_state(session_id, state)
SaveState(session_id, state) ==
    LET file == StateFile(session_id)
        written == JsonDump(state)
    IN  /\ sm_files' = [ sm_files EXCEPT ![file] = written ]
        /\ sm_result' = (written.kind = "json")
        /\ sm_saved' = IF written.kind = "json"
                       THEN [ sm_saved EXCEPT ![session_id] = SomeState(state) ]
                       ELSE sm_saved
        /\ sm_op' = "save_state"
        /\ sm_id' = session_id
        /\ sm_keep_last' = 0
        /\ sm_before' = << >>
        /\ UNCHANGED << selVars, termVars, handVars, sessVars, patVars, retVars, metVars >>

\* load_state(session_id)
LoadStateResult(files, session_id) ==
    LET file == files[StateFile(session_id)]
    IN  IF file.kind = "json" THEN SomeState(file.state) ELSE NoState

LoadState(session_id) ==
    /\ sm_result' = LoadStateResult(sm_files, session_id)
    /\ sm_op' = "load_state"
    /\ sm_id' = session_id
    /\ sm_keep_last' = 0
    /\ sm_before' = << >>
    /\ UNCHANGED << sm_files, sm_saved >>
    /\ UNCHANGED << selVars, termVars, handVars, sessVars, patVars, retVars, metVars >>

\* delete_state(session_id)
DeleteState(session_id) ==
    LET file == StateFile(session_id)
    IN  /\ sm_files' = [ sm_files EXCEPT ![file] = NoFile ]
        /\ sm_result' = (sm_files[file].kind # "none")
        /\ sm_saved' = [ sm_saved EXCEPT ![session_id] = NoState ]
        /\ sm_op' = "delete_state"
        /\ sm_id' = session_id
        /\ sm_keep_last' = 0
        /\ sm_before' = << >>
        /\ UNCHANGED << selVars, termVars, handVars, sessVars, patVars, retVars, metVars >>

\* clear_old_sessions(keep_last)
ClearOldSessions(keep_last) ==
    LET sessions == ListSessions(sm_files)
        to_delete == ToDelete(sessions, keep_last)
    IN  /\ sm_files' = [ st \in DOMAIN sm_files |->
                            IF st \in Range(to_delete) THEN NoFile ELSE sm_files[st] ]
        /\ sm_saved' = [ id \in DOMAIN sm_saved |->
                            IF Len(id) = 1 /\ id[1] \in Range(to_delete)
                            THEN NoState ELSE sm_saved[id] ]
        /\ sm_result' = Len(to_delete)
        /\ sm_op' = "clear_old_sessions"
        /\ sm_id' = << >>
        /\ sm_keep_last' = keep_last
        /\ sm_before' = sessions
        /\ UNCHANGED << selVars, termVars, handVars, sessVars, patVars, retVars, metVars >>

\* StateManager(state_dir) on an empty directory, before any call
InitStateManager ==
    /\ sm_files = [ st \in Range(StemOrder) |-> NoFile ]
    /\ sm_saved = [ id \in SessionIds |-> NoState ]
    /\ sm_op = "none"
    /\ sm_id = << >>
    /\ sm_keep_last = 0
    /\ sm_before = << >>
    /\ sm_result = FALSE

-----------------------------------------------------------------------------
(* retry_async *)

\* largest max_retries and largest delay handed to retry_async
MaxRetries == 4
MaxDelay == 3

DefaultRetries == 3
DefaultDelay == 1

\* what an attempt raised, what it returned, and the errors Python itself raises
AttemptException(attempt) == [ kind |-> "exception", attempt |-> attempt ]
AttemptValue(attempt) == [ kind |-> "value", attempt |-> attempt ]
NoException == [ kind |-> "None", attempt |-> 0 ]
TypeError == [ kind |-> "TypeError", attempt |-> 0 ]
AttributeError == [ kind |-> "AttributeError", attempt |-> 0 ]

\* the loop body when func returns: `return await func(*args, **kwargs)`
RetryAttemptReturns ==
    /\ rt_pc = "loop"
    /\ rt_attempt < rt_max_retries
    /\ rt_calls' = rt_calls + 1
    /\ rt_result' = AttemptValue(rt_attempt)
    /\ rt_pc' = "returned"
    /\ UNCHANGED << rt_max_retries, rt_delay, rt_named, rt_attempt, rt_waits,
                    rt_last_exception >>
    /\ UNCHANGED << selVars, termVars, handVars, sessVars, patVars, smVars, metVars >>

\* the wait after a failed attempt: none after the last attempt of the loop
RetryWaits(attempt, max_retries, delay, waits) ==
    IF attempt < max_retries - 1
    THEN Append(waits, delay * (2 ^ attempt))
    ELSE waits

\* the loop body when func raises: the except clause, then the next iteration
RetryAttemptRaises ==
    /\ rt_pc = "loop"
    /\ rt_attempt < rt_max_retries
    /\ rt_calls' = rt_calls + 1
    /\ rt_last_exception' = AttemptException(rt_attempt)
    /\ rt_waits' = RetryWaits(rt_attempt, rt_max_retries, rt_delay, rt_waits)
    /\ rt_attempt' = rt_attempt + 1
    /\ UNCHANGED << rt_max_retries, rt_delay, rt_named, rt_pc, rt_result >>
    /\ UNCHANGED << selVars, termVars, handVars, sessVars, patVars, smVars, metVars >>

\* after the loop: log_error with func.__name__ in its context, then
\* `raise last_exception`
RetryExhausted ==
    /\ rt_pc = "loop"
    /\ rt_attempt >= rt_max_retries
    /\ rt_result' = IF ~rt_named THEN AttributeError
                    ELSE IF rt_last_exception = NoException THEN TypeError
                    ELSE rt_last_exception
    /\ rt_pc' = "raised"
    /\ UNCHANGED << rt_max_retries, rt_delay, rt_named, rt_attempt, rt_calls,
                    rt_waits, rt_last_exception >>
    /\ UNCHANGED << selVars, termVars, handVars, sessVars, patVars, smVars, metVars >>

\* retry_async entered: `last_exception = None`, the loop not yet started
InitRetry ==
    /\ rt_attempt = 0
    /\ rt_calls = 0
    /\ rt_waits = << >>
    /\ rt_last_exception = NoException
    /\ rt_result = NoException

\* no call of retry_async is under way
InitNoRetry ==
    /\ InitRetry
    /\ rt_max_retries = DefaultRetries
    /\ rt_delay = DefaultDelay
    /\ rt_named = TRUE
    /\ rt_pc = "idle"

-----------------------------------------------------------------------------
(* MetricsTracker under concurrent api jobs *)

\* how many api jobs run at the same time
NumJobs == 3

Jobs == 1..NumJobs

\* MetricsTracker.start_task(task): a new dictionary becomes _current_task
StartTask(task) ==
    /\ mt_task_start_time' = TRUE
    /\ mt_dicts' = Append(mt_dicts, [ task |-> task, status |-> "running" ])
    /\ mt_current_task' = Len(mt_dicts) + 1

\* MetricsTracker.end_task(status=status): _current_task is updated in place
\* and appended to the session's tasks
EndTask(task, status) ==
    IF ~mt_task_start_time
    THEN UNCHANGED << mt_dicts, mt_current_task, mt_task_start_time, mt_tasks >>
    ELSE /\ mt_dicts' = [ mt_dicts EXCEPT ![mt_current_task].status = status ]
         /\ mt_tasks' = Append(mt_tasks, mt_current_task)
         /\ UNCHANGED << mt_current_task, mt_task_start_time >>

\* run_analysis_job up to its try block: the setup, then start_task(task)
JobStarts(j) ==
    /\ mt_pc[j] = "queued"
    /\ StartTask(j)
    /\ mt_pc' = [ mt_pc EXCEPT ![j] = "running" ]
    /\ UNCHANGED << mt_tasks, mt_status >>
    /\ UNCHANGED << selVars, termVars, handVars, sessVars, patVars, smVars, retVars >>

\* run_analysis_job when its setup raises: start_task is never reached
JobSetupRaises(j) ==
    /\ mt_pc[j] = "queued"
    /\ mt_pc' = [ mt_pc EXCEPT ![j] = "raised" ]
    /\ UNCHANGED << mt_dicts, mt_current_task, mt_task_start_time, mt_tasks,
                    mt_status >>
    /\ UNCHANGED << selVars, termVars, handVars, sessVars, patVars, smVars, retVars >>

\* the end of run_analysis_job's try block, or its except clause:
\* end_task(status='success') or end_task(status='error')
JobEnds(j, status) ==
    /\ mt_pc[j] = "running"
    /\ EndTask(j, status)
    /\ mt_pc' = [ mt_pc EXCEPT ![j] = "ended" ]
    /\ mt_status' = [ mt_status EXCEPT ![j] = status ]
    /\ UNCHANGED << selVars, termVars, handVars, sessVars, patVars, smVars, retVars >>

\* MetricsTracker() at import, and the jobs queued by start_analysis
InitMetrics ==
    /\ mt_dicts = << >>
    /\ mt_current_task = 0
    /\ mt_task_start_time = FALSE
    /\ mt_tasks = << >>
    /\ mt_pc = [ j \in Jobs |-> "queued" ]
    /\ mt_status = [ j \in Jobs |-> "none" ]

-----------------------------------------------------------------------------
(* Teams and sessions *)

\* max_turns = None; a given max_turns is a one-element tuple
NoLimit == << >>

\* turns a session is followed for
MaxSessionTurns == 4

\* factories that pass no max_turns and no MaxMessageTermination
TeamConfigNoTurnLimit(f, maxRounds) ==
    CASE f = "data_analyzer" ->
            [ participants |-> << Data_Analyzer, Code_Executor >>,
              round_robin |-> TRUE, max_turns |-> NoLimit, max_message |-> FALSE ]
      [] f = "selector" ->
            [ participants |-> << Data_Analyzer, Code_Executor,
                                  Visualization_Specialist, Statistics_Analyst >>,
              round_robin |-> FALSE, max_turns |-> NoLimit, max_message |-> FALSE ]
      [] f = "basic" ->
            [ participants |-> << Data_Analyzer, Code_Executor >>,
              round_robin |-> TRUE, max_turns |-> NoLimit, max_message |-> FALSE ]
      [] f = "visualization" ->
            [ participants |-> << Data_Analyzer, Visualization_Specialist,
                                  Code_Executor >>,
              round_robin |-> TRUE, max_turns |-> NoLimit, max_message |-> FALSE ]
      [] f = "statistics" ->
            [ participants |-> << Data_Analyzer, Statistics_Analyst, Code_Executor >>,
              round_robin |-> TRUE, max_turns |-> NoLimit, max_message |-> FALSE ]

\* what each factory of team/analyzer_gpt.py hands to the group chat:
\* participants, max_turns, and whether the termination condition holds a
\* MaxMessageTermination(MAX_ROUNDS) beside the two text mentions;
\* "selector" is create_data_analyzer_team(use_selector=True)
TeamConfig(f, maxRounds) ==
    CASE f = "data_analyzer" ->
            [ participants |-> << Data_Analyzer, Code_Executor >>,
              round_robin |-> TRUE, max_turns |-> << maxRounds >>, max_message |-> TRUE ]
      [] f = "selector" ->
            [ participants |-> << Data_Analyzer, Code_Executor,
                                  Visualization_Specialist, Statistics_Analyst >>,
              round_robin |-> FALSE, max_turns |-> NoLimit, max_message |-> TRUE ]
      [] f = "basic" ->
            [ participants |-> << Data_Analyzer, Code_Executor >>,
              round_robin |-> TRUE, max_turns |-> << maxRounds >>, max_message |-> FALSE ]
      [] f = "visualization" ->
            [ participants |-> << Data_Analyzer, Visualization_Specialist,
                                  Code_Executor >>,
              round_robin |-> TRUE, max_turns |-> << maxRounds >>, max_message |-> FALSE ]
      [] f = "statistics" ->
            [ participants |-> << Data_Analyzer, Statistics_Analyst, Code_Executor >>,
              round_robin |-> TRUE, max_turns |-> << maxRounds >>, max_message |-> FALSE ]

Factories == { "data_analyzer", "selector", "basic", "visualization", "statistics" }

\* the termination condition of a team, evaluated on its history
TeamTermination(cfg, maxRounds, msgs) ==
    LET termination ==
            OrTermination(TextMentionTermination(STOP, msgs),
                          TextMentionTermination(TERMINATION_MSG, msgs))
    IN  IF cfg.max_message
        THEN OrTermination(termination, MaxMessageTermination(maxRounds, msgs))
        ELSE termination

\* the task message, which the stream yields first with source 'user'
TaskMessage == TextMessage(<<"t","a","s","k">>)

\* what an agent invocation returns in the sessions checked
SessionMessages ==
    { TextMessage(Text_ok), TextMessage(Text_Failed), TextMessage(Text_STOP) }

\* team.run_stream(task=task) starts: Idle -> Running on task submission
TeamSubmit ==
    /\ pc = "stream"
    /\ team_state = "Idle"
    /\ team_state' = "Running"
    /\ history' = << TaskMessage >>
    /\ UNCHANGED << runner, factory, MAX_ROUNDS, pc, docker_started, start_calls,
                    stop_calls, speakers, in_flight, agent_raised, job_status,
                    recorded, result >>
    /\ UNCHANGED << selVars, termVars, handVars, patVars, smVars, retVars, metVars >>

\* a team loop that invokes the next agent without waiting for the one in flight
TeamInvokeOverlapping(a) ==
    /\ pc = "stream"
    /\ team_state = "Running"
    /\ Len(speakers) < MaxSessionTurns
    /\ LET cfg == TeamConfig(factory, MAX_ROUNDS)
       IN  /\ a \in Range(cfg.participants)
           /\ cfg.round_robin =>
                a = cfg.participants[(Len(speakers) % Len(cfg.participants)) + 1]
    /\ in_flight' = a
    /\ speakers' = Append(speakers, a)
    /\ UNCHANGED << runner, factory, MAX_ROUNDS, pc, docker_started, start_calls,
                    stop_calls, team_state, history, agent_raised, job_status,
                    recorded, result >>
    /\ UNCHANGED << selVars, termVars, handVars, patVars, smVars, retVars, metVars >>

\* the team picks the next agent and invokes it: the round-robin teams take the
\* participants in rotation, the selector team any participant
TeamInvoke(a) ==
    /\ pc = "stream"
    /\ team_state = "Running"
    /\ in_flight = None
    /\ Len(speakers) < MaxSessionTurns
    /\ LET cfg == TeamConfig(factory, MAX_ROUNDS)
       IN  /\ a \in Range(cfg.participants)
           /\ cfg.round_robin =>
                a = cfg.participants[(Len(speakers) % Len(cfg.participants)) + 1]
    /\ in_flight' = a
    /\ speakers' = Append(speakers, a)
    /\ UNCHANGED << runner, factory, MAX_ROUNDS, pc, docker_started, start_calls,
                    stop_calls, team_state, history, agent_raised, job_status,
                    recorded, result >>
    /\ UNCHANGED << selVars, termVars, handVars, patVars, smVars, retVars, metVars >>

\* the invoked agent returns a message: it is appended to the history, then the
\* termination condition and the turn limit decide whether the team stops
TeamAgentReturns(m) ==
    /\ pc = "stream"
    /\ team_state = "Running"
    /\ in_flight # None
    /\ in_flight' = None
    /\ history' = Append(history, m)
    /\ LET cfg == TeamConfig(factory, MAX_ROUNDS)
       IN  team_state' =
             IF \/ TeamTermination(cfg, MAX_ROUNDS, history')
                \/ (cfg.max_turns # NoLimit /\ Len(speakers) >= cfg.max_turns[1])
             THEN "Stopped"
             ELSE "Running"
    /\ UNCHANGED << runner, factory, MAX_ROUNDS, pc, docker_started, start_calls,
                    stop_calls, speakers, agent_raised, job_status, recorded,
                    result >>
    /\ UNCHANGED << selVars, termVars, handVars, patVars, smVars, retVars, metVars >>

\* where an exception raised inside the try block goes: the except clause of
\* the runner; a direct caller of run_stream has none and the exception leaves
RaiseInTry(r) == IF r = "direct" THEN "raised" ELSE "except"

\* the invoked agent raises: the exception leaves run_stream
TeamAgentRaises ==
    /\ pc = "stream"
    /\ team_state = "Running"
    /\ in_flight # None
    /\ in_flight' = None
    /\ agent_raised' = TRUE
    /\ team_state' = "Stopped"
    /\ pc' = RaiseInTry(runner)
    /\ UNCHANGED << runner, factory, MAX_ROUNDS, docker_started, start_calls,
                    stop_calls, history, speakers, job_status, recorded, result >>
    /\ UNCHANGED << selVars, termVars, handVars, patVars, smVars, retVars, metVars >>

\* cli and api, before the try block: the model client, the executor and the
\* team are built (api: after the job is marked running) and the task is
\* handed to the metrics tracker
SessSetupOk ==
    /\ pc = "setup"
    /\ runner \in { "cli", "api" }
    /\ job_status' = IF runner = "api" THEN "running" ELSE job_status
    /\ team_state' = "Idle"
    /\ pc' = "start"
    /\ UNCHANGED << runner, factory, MAX_ROUNDS, docker_started, start_calls,
                    stop_calls, history, speakers, in_flight, agent_raised,
                    recorded, result >>
    /\ UNCHANGED << selVars, termVars, handVars, patVars, smVars, retVars, metVars >>

\* cli and api: building the model client or the team raises, outside the try
SessSetupRaises ==
    /\ pc = "setup"
    /\ runner \in { "cli", "api" }
    /\ job_status' = IF runner = "api" THEN "running" ELSE job_status
    /\ pc' = "raised"
    /\ UNCHANGED << runner, factory, MAX_ROUNDS, docker_started, start_calls,
                    stop_calls, team_state, history, speakers, in_flight,
                    agent_raised, recorded, result >>
    /\ UNCHANGED << selVars, termVars, handVars, patVars, smVars, retVars, metVars >>

\* first statement of the try block: start_docker_container returns
SessStartOk ==
    /\ pc = "start"
    /\ start_calls' = start_calls + 1
    /\ docker_started' = TRUE
    /\ pc' = IF runner = "web" THEN "create" ELSE "stream"
    /\ UNCHANGED << runner, factory, MAX_ROUNDS, stop_calls, team_state, history,
                    speakers, in_flight, agent_raised, job_status, recorded,
                    result >>
    /\ UNCHANGED << selVars, termVars, handVars, patVars, smVars, retVars, metVars >>

\* a runner that starts the sandbox before its try block, so that a failed
\* start leaves the runner at once
SessStartRaisesOutsideTry ==
    /\ pc = "start"
    /\ start_calls' = start_calls + 1
    /\ pc' = "raised"
    /\ UNCHANGED << runner, factory, MAX_ROUNDS, docker_started, stop_calls,
                    team_state, history, speakers, in_flight, agent_raised,
                    job_status, recorded, result >>
    /\ UNCHANGED << selVars, termVars, handVars, patVars, smVars, retVars, metVars >>

\* start_docker_container raises
SessStartRaises ==
    /\ pc = "start"
    /\ start_calls' = start_calls + 1
    /\ pc' = RaiseInTry(runner)
    /\ UNCHANGED << runner, factory, MAX_ROUNDS, docker_started, stop_calls,
                    team_state, history, speakers, in_flight, agent_raised,
                    job_status, recorded, result >>
    /\ UNCHANGED << selVars, termVars, handVars, patVars, smVars, retVars, metVars >>

\* web: the team is built (and a saved state loaded) inside the try block,
\* then the task is handed to the metrics tracker
SessCreateOk ==
    /\ pc = "create"
    /\ team_state' = "Idle"
    /\ pc' = "stream"
    /\ UNCHANGED << runner, factory, MAX_ROUNDS, docker_started, start_calls,
                    stop_calls, history, speakers, in_flight, agent_raised,
                    job_status, recorded, result >>
    /\ UNCHANGED << selVars, termVars, handVars, patVars, smVars, retVars, metVars >>

\* web: building the team or loading its state raises; the task was not yet
\* handed to the metrics tracker
SessCreateRaises ==
    /\ pc = "create"
    /\ pc' = RaiseInTry(runner)
    /\ UNCHANGED << runner, factory, MAX_ROUNDS, docker_started, start_calls,
                    stop_calls, team_state, history, speakers, in_flight,
                    agent_raised, job_status, recorded, result >>
    /\ UNCHANGED << selVars, termVars, handVars, patVars, smVars, retVars, metVars >>

\* a runner that runs the stopped team again instead of leaving the loop
SessStreamEndsRunsAgain ==
    /\ pc = "stream"
    /\ team_state = "Stopped"
    /\ team_state' = "Running"
    /\ UNCHANGED << runner, factory, MAX_ROUNDS, pc, docker_started, start_calls,
                    stop_calls, history, speakers, in_flight, agent_raised,
                    job_status, recorded, result >>
    /\ UNCHANGED << selVars, termVars, handVars, patVars, smVars, retVars, metVars >>

\* the stream is exhausted: the rest of the try block (api: the job is marked
\* completed; end_task(status='success'))
SessStreamEnds ==
    /\ pc = "stream"
    /\ team_state = "Stopped"
    /\ job_status' = IF runner = "api" THEN "completed" ELSE job_status
    /\ recorded' = Append(recorded, "success")
    /\ result' = IF runner = "cli" THEN "0" ELSE IF runner = "web" THEN "None" ELSE result
    /\ pc' = "finally"
    /\ UNCHANGED << runner, factory, MAX_ROUNDS, docker_started, start_calls,
                    stop_calls, team_state, history, speakers, in_flight,
                    agent_raised >>
    /\ UNCHANGED << selVars, termVars, handVars, patVars, smVars, retVars, metVars >>

\* web: the stream is exhausted and team.save_state() raises
SessSaveStateRaises ==
    /\ pc = "stream"
    /\ team_state = "Stopped"
    /\ runner = "web"
    /\ pc' = RaiseInTry(runner)
    /\ UNCHANGED << runner, factory, MAX_ROUNDS, docker_started, start_calls,
                    stop_calls, team_state, history, speakers, in_flight,
                    agent_raised, job_status, recorded, result >>
    /\ UNCHANGED << selVars, termVars, handVars, patVars, smVars, retVars, metVars >>

\* a runner whose cli error path returns without reaching the cleanup
AfterExceptCliReturns(r) == IF r = "cli" THEN "done" ELSE "finally"

\* where control goes after the except clause: the finally clause
AfterExcept(r) == "finally"

\* the task was handed to metrics_tracker.start_task before the exception
TaskStarted ==
    \/ runner \in { "cli", "api" }
    \/ team_state # "none"

\* except Exception: end_task(status='error') (recorded if the task was
\* started), the error is logged (api: the job is marked failed; cli: return 1;
\* web: return e)
SessExcept ==
    /\ pc = "except"
    /\ job_status' = IF runner = "api" THEN "failed" ELSE job_status
    /\ recorded' = IF TaskStarted THEN Append(recorded, "error") ELSE recorded
    /\ result' = IF runner = "cli" THEN "1" ELSE IF runner = "web" THEN "e" ELSE result
    /\ pc' = AfterExcept(runner)
    /\ UNCHANGED << runner, factory, MAX_ROUNDS, docker_started, start_calls,
                    stop_calls, team_state, history, speakers, in_flight,
                    agent_raised >>
    /\ UNCHANGED << selVars, termVars, handVars, patVars, smVars, retVars, metVars >>

\* finally: stop_docker_container returns
SessStopOk ==
    /\ pc = "finally"
    /\ stop_calls' = stop_calls + 1
    /\ docker_started' = FALSE
    /\ pc' = "done"
    /\ UNCHANGED << runner, factory, MAX_ROUNDS, start_calls, team_state, history,
                    speakers, in_flight, agent_raised, job_status, recorded,
                    result >>
    /\ UNCHANGED << selVars, termVars, handVars, patVars, smVars, retVars, metVars >>

\* finally: stop_docker_container raises, and the exception leaves the runner
SessStopRaises ==
    /\ pc = "finally"
    /\ stop_calls' = stop_calls + 1
    /\ pc' = "raised"
    /\ UNCHANGED << runner, factory, MAX_ROUNDS, docker_started, start_calls,
                    team_state, history, speakers, in_flight, agent_raised,
                    job_status, recorded, result >>
    /\ UNCHANGED << selVars, termVars, handVars, patVars, smVars, retVars, metVars >>

\* the state a session starts from, but for who runs it and with which team
InitSessionState ==
    /\ docker_started = FALSE
    /\ start_calls = 0
    /\ stop_calls = 0
    /\ history = << >>
    /\ speakers = << >>
    /\ in_flight = None
    /\ agent_raised = FALSE
    /\ recorded = << >>
    /\ result = "none"

\* no session is run
InitNoSession ==
    /\ InitSessionState
    /\ runner = "direct"
    /\ factory = "basic"
    /\ MAX_ROUNDS = DefaultMaxRounds
    /\ pc = "done"
    /\ team_state = "none"
    /\ job_status = "none"

-----------------------------------------------------------------------------
(* The selectors, each constructed once and then called on a fixed roster *)

InitSelectors ==
    /\ current_index = 0
    /\ rr_returned = << >>
    /\ kw_called = FALSE
    /\ kw_message = NoMessage
    /\ kw_result = None
    /\ turn_count = 0
    /\ pr_returned = << >>

SelectorInit ==
    /\ agents \in Rosters
    /\ InitSelectors
    /\ InitTerminationDefault
    /\ InitHandoff
    /\ InitPatterns
    /\ InitStateManager
    /\ InitMetrics
    /\ InitNoRetry
    /\ InitNoSession

SelectorNext ==
    \E m \in SelectorMessages :
        \/ RoundRobinSelect(m)
        \/ KeywordSelect(m)
        \/ PrioritySelect(m)

SpecSelector == SelectorInit /\ [][SelectorNext]_vars

\* the evaluators, constructed with any thresholds and called round by round
TerminationInit ==
    /\ InitEvaluators
    \* the instances share no state: one configured value n serves as
    \* max_errors, repetition_threshold and max_rounds
    /\ \E n \in 1..MaxThreshold :
           /\ max_errors = n
           /\ threshold = n
           /\ max_rounds = n
    /\ agents = << Data_Analyzer, Code_Executor >>
    /\ InitSelectors
    /\ InitHandoff
    /\ InitPatterns
    /\ InitStateManager
    /\ InitMetrics
    /\ InitNoRetry
    /\ InitNoSession

TerminationNext == \E m \in ConversationMessages : EvaluateRound(m)

SpecTermination == TerminationInit /\ [][TerminationNext]_vars

\* the messages of the histories handed to the counting evaluators
LifecycleMessages == { TextMessage(Text_ok), TextMessage(Text_Failed) }

\* an ErrorTermination and a TimeoutTermination instance, called at any time,
\* any number of times, on a history that grows between the calls
LifecycleNext ==
    \/ \E m \in LifecycleMessages : AppendMessage(m)
    \/ CallErrorTermination
    \/ CallTimeoutTermination
    \/ NewEvaluators

SpecLifecycle == TerminationInit /\ [][LifecycleNext]_vars

\* one SuccessTermination instance, called at any time on a growing history
SuccessInit ==
    /\ InitTerminationDefault
    /\ agents = << Data_Analyzer, Code_Executor >>
    /\ InitSelectors
    /\ InitHandoff
    /\ InitPatterns
    /\ InitStateManager
    /\ InitMetrics
    /\ InitNoRetry
    /\ InitNoSession

SuccessNext ==
    \/ \E m \in SuccessMessages : AppendMessage(m)
    \/ CallSuccessTermination

SpecSuccess == SuccessInit /\ [][SuccessNext]_vars

\* create_handoff_pattern, called for any type in any order, by a caller that
\* changes the lists it was returned
PatternInit ==
    /\ InitPatterns
    /\ InitStateManager
    /\ InitMetrics
    /\ InitNoRetry
    /\ InitHandoff
    /\ agents = << Data_Analyzer, Code_Executor >>
    /\ InitSelectors
    /\ InitTerminationDefault
    /\ InitNoSession

PatternNext ==
    \/ \E t \in PatternTypes : CallCreateHandoffPattern(t)
    \/ \E i \in 1..MaxHeld : CallerPops(i)

SpecPattern == PatternInit /\ [][PatternNext]_vars

\* one StateManager on an empty directory, called in any order
StateManagerInit ==
    /\ InitStateManager
    /\ InitMetrics
    /\ InitNoRetry
    /\ InitPatterns
    /\ InitHandoff
    /\ agents = << Data_Analyzer, Code_Executor >>
    /\ InitSelectors
    /\ InitTerminationDefault
    /\ InitNoSession

StateManagerNext ==
    \/ \E id \in SessionIds, state \in StateValues : SaveState(id, state)
    \/ \E id \in SessionIds : LoadState(id)
    \/ \E id \in SessionIds : DeleteState(id)
    \/ \E k \in 0..MaxKeepLast : ClearOldSessions(k)

SpecStateManager == StateManagerInit /\ [][StateManagerNext]_vars

\* one call of retry_async, with any max_retries and delay, on a function
\* whose attempts return or raise as they please
RetryInit ==
    /\ InitRetry
    /\ rt_max_retries \in 0..MaxRetries
    /\ rt_delay \in 1..MaxDelay
    /\ rt_named \in BOOLEAN
    /\ rt_pc = "loop"
    /\ agents = << Data_Analyzer, Code_Executor >>
    /\ InitSelectors
    /\ InitTerminationDefault
    /\ InitHandoff
    /\ InitPatterns
    /\ InitStateManager
    /\ InitMetrics
    /\ InitNoSession

RetryNext ==
    \/ RetryAttemptReturns
    \/ RetryAttemptRaises
    \/ RetryExhausted

SpecRetry == RetryInit /\ [][RetryNext]_vars

\* api jobs sharing the module-level metrics_tracker, their steps interleaved
\* at the awaits between start_task and end_task
MetricsInit ==
    /\ agents = << Data_Analyzer, Code_Executor >>
    /\ InitSelectors
    /\ InitTerminationDefault
    /\ InitHandoff
    /\ InitPatterns
    /\ InitStateManager
    /\ InitMetrics
    /\ InitNoRetry
    /\ InitNoSession

MetricsNext ==
    \/ \E j \in Jobs : JobStarts(j)
    \/ \E j \in Jobs : JobSetupRaises(j)
    \/ \E j \in Jobs, status \in { "success", "error" } : JobEnds(j, status)

SpecMetrics == MetricsInit /\ [][MetricsNext]_vars

\* one AgentHandoff instance, asked for next agents and chains in any order
HandoffInit ==
    /\ InitHandoff
    /\ InitPatterns
    /\ InitStateManager
    /\ InitMetrics
    /\ InitNoRetry
    /\ agents = << Data_Analyzer, Code_Executor >>
    /\ InitSelectors
    /\ InitTerminationDefault
    /\ InitNoSession

HandoffNext ==
    \/ \E a \in AskedAgents, c \in Contexts : CallGetNextAgent(a, c)
    \/ \E a \in AskedAgents, n \in 0..MaxChainLength : CallGetHandoffChain(a, n)

SpecHandoff == HandoffInit /\ [][HandoffNext]_vars

\* the agent names the keyword selector looks up and the priority selector lists
SelectorNames ==
    { Visualization_Specialist, Statistics_Analyst, Code_Executor, Data_Analyzer }
        \cup Range(priority_order)

\* the agent names of a rule set: its keys, default targets and condition targets
HandoffRuleNames(rules) ==
    DOMAIN rules
        \cup UNION { Range(rules[a].next) : a \in DOMAIN rules }
        \cup UNION { { rules[a].conditions[i][2] :
                          i \in 1..Len(rules[a].conditions) } : a \in DOMAIN rules }

\* the agent names of the workflow patterns
PatternNames == UNION { Range(patterns[p]) : p \in DOMAIN patterns }

\* the roster of the team a factory builds
TeamRoster(f) == Range(TeamConfig(f, DefaultMaxRounds).participants)

\* one session of a runner: the three runners build their team with
\* create_basic_team; the web runner is entered with the executor built
SessionInit ==
    /\ InitSessionState
    /\ runner \in { "cli", "api", "web" }
    /\ factory = "basic"
    /\ MAX_ROUNDS \in 1..MaxThreshold
    /\ pc = IF runner = "web" THEN "start" ELSE "setup"
    /\ team_state = "none"
    /\ job_status = IF runner = "api" THEN "queued" ELSE "none"
    /\ agents = << Data_Analyzer, Code_Executor >>
    /\ InitSelectors
    /\ InitTerminationDefault
    /\ InitHandoff
    /\ InitPatterns
    /\ InitStateManager
    /\ InitMetrics
    /\ InitNoRetry

TeamNext ==
    \/ TeamSubmit
    \/ \E a \in AskedAgents : TeamInvoke(a)
    \/ \E m \in SessionMessages : TeamAgentReturns(m)
    \/ TeamAgentRaises

SessionNext ==
    \/ SessSetupOk
    \/ SessSetupRaises
    \/ SessStartOk
    \/ SessStartRaises
    \/ SessCreateOk
    \/ SessCreateRaises
    \/ TeamNext
    \/ SessStreamEnds
    \/ SessSaveStateRaises
    \/ SessExcept
    \/ SessStopOk
    \/ SessStopRaises

SpecSession == SessionInit /\ [][SessionNext]_vars

\* a team of any factory, run by a direct caller of run_stream
TeamInit ==
    /\ InitSessionState
    /\ runner = "direct"
    /\ factory \in Factories
    /\ MAX_ROUNDS \in 1..MaxSessionTurns
    /\ pc = "stream"
    /\ team_state = "Idle"
    /\ job_status = "none"
    /\ agents = << Data_Analyzer, Code_Executor >>
    /\ InitSelectors
    /\ InitTerminationDefault
    /\ InitHandoff
    /\ InitPatterns
    /\ InitStateManager
    /\ InitMetrics
    /\ InitNoRetry

SpecTeam == TeamInit /\ [][TeamNext]_vars

\* every external agent call returns or raises, and the team loop goes on
FairSpecTeam == SpecTeam /\ WF_vars(TeamNext)

-----------------------------------------------------------------------------
(* Claims about the selectors, checked under SpecSelector *)

\* C1: for a RoundRobinSelector used with a fixed non-empty roster of size N,
\* the k-th call of select_next_agent (k counted from 0) returned
\* roster[k mod N], for every k made so far and whatever the last messages were.
C1_RoundRobinReturnsRosterKModN ==
    /\ Len(rr_returned) = current_index
    /\ \A k \in 0..(Len(rr_returned) - 1) :
           rr_returned[k + 1] = agents[(k % Len(agents)) + 1]

\* C1 witness: a roster of 4 agents has been cycled through once and the
\* rotation has wrapped back to its first agent.
C1_Witness_Wrapped ==
    /\ Len(agents) = 4
    /\ Len(rr_returned) > Len(agents)
    /\ rr_returned[Len(agents) + 1] = agents[1]

\* the latest keyword-selector call read a message whose content, lower-cased
\* as the selector reads it, contains a keyword of the list
C9_LastContentHas(keywords) ==
    /\ kw_called
    /\ IsAgentMessage(kw_message)
    /\ ContainsAny(Lower(kw_message.content), keywords)

\* C9 as stated: for all inputs (roster, last message) whose content contains a
\* visualization keyword, the selected agent is Visualization_Specialist.
C9_Original_VisualizationAlwaysSelected ==
    C9_LastContentHas(visualization_keywords)
        => kw_result = Visualization_Specialist

\* C9 amended: when the content contains a visualization keyword, the selected
\* agent is Visualization_Specialist if the roster holds an agent of that name,
\* and the call returns "no preference" (None) if it does not.
C9_VisualizationSelectedWhenInRoster ==
    C9_LastContentHas(visualization_keywords)
        => kw_result = IF Visualization_Specialist \in Range(agents)
                       THEN Visualization_Specialist
                       ELSE None

\* C9 witness: "Plot mean" (a visualization keyword in upper case, and a
\* statistics keyword) selected the visualization agent.
C9_Witness_PlotSelectsVisualization ==
    /\ kw_called
    /\ kw_message.content = Text_Plot_mean
    /\ kw_result = Visualization_Specialist

\* the topics in the order select_next_agent tests them, with their agents
C10_CheckOrder ==
    << visualization_keywords, statistics_keywords,
       code_executor_keywords, data_analyzer_keywords >>

C10_TopicAgent ==
    << Visualization_Specialist, Statistics_Analyst, Code_Executor, Data_Analyzer >>

\* topic i is the first topic of the check order with a keyword in the content
C10_FirstMatch(i) ==
    /\ C9_LastContentHas(C10_CheckOrder[i])
    /\ \A j \in 1..(i - 1) : ~C9_LastContentHas(C10_CheckOrder[j])

C10_SeveralTopicsMatch ==
    Cardinality({ i \in 1..4 : C9_LastContentHas(C10_CheckOrder[i]) }) >= 2

\* C10 as stated: when the content contains keywords of several topics, the
\* call chooses the agent of the first matching topic of the check order
\* visualization, statistics, execution, analysis.
C10_Original_FirstTopicAgentChosen ==
    \A i \in 1..4 :
        (C10_SeveralTopicsMatch /\ C10_FirstMatch(i))
            => kw_result = C10_TopicAgent[i]

\* C10 amended: when the content contains keywords of several topics, the call
\* returns the agent of the first matching topic of the check order if the
\* roster holds an agent of that name, and "no preference" (None) otherwise,
\* whatever the positions of the keywords in the text are; it never falls
\* through to a later topic.
C10_FirstTopicInCheckOrderWins ==
    \A i \in 1..4 :
        (C10_SeveralTopicsMatch /\ C10_FirstMatch(i))
            => kw_result = IF C10_TopicAgent[i] \in Range(agents)
                           THEN C10_TopicAgent[i]
                           ELSE None

\* C10 witness: in "mean plot" the statistics keyword comes first in the text
\* and the visualization topic, first in the check order, was chosen.
C10_Witness_LaterKeywordWins ==
    /\ kw_called
    /\ kw_message.content = Text_mean_plot
    /\ kw_result = Visualization_Specialist

\* the name the priority selector resolves on its call number t (from 1)
C11_PriorityName(t) == priority_order[t]

\* C11: a selector call whose resolved agent name is not in the roster returns
\* "no preference" (None) and does not raise, for the keyword and the priority
\* selector; the keyword selector also returns None when no keyword matches,
\* and returns None, not the agent of a later topic, when the agent of the
\* first matching topic is absent.
C11_NameResolutionNeverRaises ==
    /\ kw_result # Raised
    /\ \A t \in 1..Len(pr_returned) : pr_returned[t] # Raised
    /\ \A i \in 1..4 :
          (C10_FirstMatch(i) /\ C10_TopicAgent[i] \notin Range(agents))
              => kw_result = None
    /\ (kw_called /\ IsAgentMessage(kw_message)
          /\ \A i \in 1..4 : ~C9_LastContentHas(C10_CheckOrder[i]))
              => kw_result = None
    /\ \A t \in 1..Len(pr_returned) :
          (t <= Len(priority_order) /\ C11_PriorityName(t) \notin Range(agents))
              => pr_returned[t] = None

\* C11 witness: on the roster [Data_Analyzer, Code_Executor] the third priority
\* call resolved Statistics_Analyst and returned None, and a keyword call on
\* "load std" (a code keyword beside the statistics one) returned None.
C11_Witness_AbsentAgentsGiveNone ==
    /\ agents = << Data_Analyzer, Code_Executor >>
    /\ Len(pr_returned) >= 3
    /\ pr_returned[3] = None
    /\ kw_called
    /\ kw_message = TextMessage(Text_load_std)
    /\ kw_result = None

\* C12 as stated: call t (from 0) with t < 4 returns the agent named
\* priority_order[t], every later call returns None, and the turn counter
\* grows by one on every call.
C12_Original_PriorityOrderReturned ==
    /\ turn_count = Len(pr_returned)
    /\ \A t \in 1..Len(pr_returned) :
          pr_returned[t] = IF t <= Len(priority_order)
                           THEN priority_order[t]
                           ELSE None

\* C12 amended: call t (from 0) with t < 4 returns the agent named
\* priority_order[t] if the roster holds an agent of that name and None
\* otherwise; every call with t >= 4 returns None; the turn counter grows by
\* one on every call, the calls that return None included.
C12_PriorityOrderWhenInRoster ==
    /\ turn_count = Len(pr_returned)
    /\ \A t \in 1..Len(pr_returned) :
          pr_returned[t] =
              IF t <= Len(priority_order) /\ priority_order[t] \in Range(agents)
              THEN priority_order[t]
              ELSE None

\* C12 witness: on the roster of four, five calls returned the priority order
\* and then None, and the counter stands at five.
C12_Witness_FifthCallDefers ==
    /\ pr_returned = << Data_Analyzer, Code_Executor, Statistics_Analyst,
                        Visualization_Specialist, None >>
    /\ turn_count = 5

-----------------------------------------------------------------------------
(* Claims about the termination conditions, checked under SpecTermination *)

\* C2: the composed evaluators (text mention of TERMINATE / STOP, or max
\* message) returned true on every call whose latest message contains a stop
\* token, and on every call whose history had max_rounds messages or more,
\* whatever the messages say; TimeoutTermination agrees on the round limit.
C2_StopTokenOrRoundLimitTerminates ==
    /\ Len(standard_results) = Len(messages)
    /\ Len(team_results) = Len(messages)
    /\ Len(timeout_results) = Len(messages)
    /\ \A k \in 1..Len(messages) :
        /\ (Contains(messages[k].content, TERMINATION_MSG)
                \/ Contains(messages[k].content, STOP))
              => (standard_results[k] /\ team_results[k])
        /\ (k >= max_rounds)
              => (standard_results[k] /\ team_results[k] /\ timeout_results[k])

\* C2 witness: with max_rounds = 2, a history of two messages without any stop
\* token made the evaluators return true on the second call, and not before.
C2_Witness_RoundLimitReached ==
    /\ max_rounds = 2
    /\ messages = << TextMessage(Text_ok), TextMessage(Text_ok) >>
    /\ standard_results = << FALSE, TRUE >>
    /\ team_results = << FALSE, TRUE >>

\* message k of the history contains an error substring (lower-cased)
C3_ErrorMatch(k) ==
    ContainsAny(Lower(messages[k].content), error_keywords)

\* how many of the first k messages contain an error substring
C3_MatchCount(k) == Cardinality({ i \in 1..k : C3_ErrorMatch(i) })

C4_StagnationRule ==
    /\ Len(stuck_results) = Len(messages)
    /\ \A k \in 1..Len(messages) :
        stuck_results[k] =
            (/\ k >= threshold
             /\ \A i, j \in (k - threshold + 1)..k :
                    messages[i].content = messages[j].content)

\* C4 witness: with threshold 3, two identical messages after a different one
\* gave false, and the third identical message gave true.
C4_Witness_ThreeIdentical ==
    /\ threshold = 3
    /\ messages = << TextMessage(Text_ok), TextMessage(Text_Failed),
                     TextMessage(Text_Failed), TextMessage(Text_Failed) >>
    /\ stuck_results = << FALSE, FALSE, FALSE, TRUE >>

\* the composite's sub-rules that come before the error rule, on the first k
\* messages of the history
C22_EarlierRuleTrue(k) ==
    LET msgs == SubSeq(messages, 1, k)
    IN  \/ TextMentionTermination(TERMINATE, msgs)
        \/ TextMentionTermination(STOP, msgs)
        \/ MaxMessageTermination(max_rounds, msgs)
        \/ SuccessTerminationCall(msgs)

\* C22: in every round of the composite built by create_robust_termination,
\* the error rule is evaluated once: its counter grows by one when the latest
\* message contains an error substring and stays otherwise, also in rounds
\* where an earlier sub-rule of the composite returned true; the composite
\* returned true in every round in which one of its sub-rules did.
C22_CompositeEvaluatesEveryRule ==
    /\ Len(robust_results) = Len(messages)
    /\ robust_error_count = C3_MatchCount(Len(messages))
    /\ \A k \in 1..Len(messages) :
        /\ C22_EarlierRuleTrue(k) => robust_results[k]
        /\ (C3_ErrorMatch(k) /\ C3_MatchCount(k) >= max_errors)
              => robust_results[k]

\* C22 witness: the round limit of 1 made the composite return true in both
\* rounds, and the error rule still counted the failure of each round.
C22_Witness_CountedAfterStop ==
    /\ max_rounds = 1
    /\ messages = << TextMessage(Text_Failed), TextMessage(Text_Failed) >>
    /\ robust_results = << TRUE, TRUE >>
    /\ robust_error_count = 2

-----------------------------------------------------------------------------
(* Claims about the evaluators' counters, checked under SpecLifecycle *)

\* C24: error_count and round_count change only in a step that calls their
\* evaluator or builds the evaluators anew: a call of ErrorTermination leaves
\* error_count as it was or adds one to it, a call of TimeoutTermination sets
\* round_count to the length of the history, and error_count goes down only
\* when the evaluators are built anew.
C24_CountersFollowLifecycle ==
    [][ LET called_error == Len(error_results') = Len(error_results) + 1
            called_timeout == Len(timeout_results') = Len(timeout_results) + 1
            built == /\ error_results' = << >> /\ timeout_results' = << >>
                     /\ error_count' = 0 /\ round_count' = 0
        IN  /\ (error_count' # error_count)
                  => \/ built
                     \/ called_error /\ error_count' = error_count + 1
            /\ (round_count' # round_count) => (built \/ called_timeout)
            /\ called_error => error_count' \in { error_count, error_count + 1 }
            /\ called_timeout => round_count' = Len(messages')
            /\ (error_count' < error_count) => built ]_vars

\* C24 witness: two calls on the same one-message history counted its failure
\* twice, and the round count set by a call on that history stayed at 1 while
\* two more messages were appended.
C24_Witness_CountersBetweenCalls ==
    /\ Len(messages) = 3
    /\ messages[1] = TextMessage(Text_Failed)
    /\ Len(error_results) = 2
    /\ error_count = 2
    /\ round_count = 1

-----------------------------------------------------------------------------
(* Claims about the success rule, checked under SpecSuccess *)

\* the latest content of the history, lower-cased, contains the phrase
C13_LatestHas(msgs, phrase) ==
    /\ msgs # << >>
    /\ Contains(Lower(msgs[Len(msgs)].content), phrase)

\* C13: a SuccessTermination call returns true if and only if the latest
\* message's content, lower-cased, contains one of the success phrases; it
\* returns false on an empty history, and neither the earlier messages nor
\* the earlier calls change the result.
C13_SuccessRule ==
    succ_called =>
        (succ_result <=>
            \E k \in 1..Len(success_keywords) :
                C13_LatestHas(succ_history, success_keywords[k]))

\* C13 witness: the call on a history whose earlier message says "Done" and
\* whose latest says "ok" returned false.
C13_Witness_EarlierPhraseIgnored ==
    /\ succ_called
    /\ succ_history = << TextMessage(Text_Done), TextMessage(Text_ok) >>
    /\ succ_result = FALSE

-----------------------------------------------------------------------------
(* Claims about the handoff rules, checked under SpecHandoff *)

\* C7: over the default rule set, get_handoff_chain('Data_Analyzer', 5)
\* returned exactly [Data_Analyzer, Code_Executor, Data_Analyzer,
\* Code_Executor, Data_Analyzer], on every call and whatever calls were made
\* before.
C7_DefaultChainAlternates ==
    (hand_op = "get_handoff_chain" /\ hc_start = Data_Analyzer /\ hc_length = 5)
        => hc_chain = << Data_Analyzer, Code_Executor, Data_Analyzer,
                         Code_Executor, Data_Analyzer >>

\* C7 witness: the chain of length 5 from Data_Analyzer was asked for after
\* other calls had been made to the instance, and has 5 entries.
C7_Witness_ChainAfterOtherCalls ==
    /\ hand_op = "get_handoff_chain" /\ hand_earlier
    /\ hc_start = Data_Analyzer /\ hc_length = 5
    /\ Len(hc_chain) = 5

\* the items of the current agent's conditions that the context of the latest
\* get_next_agent call flags as true
C8_Flagged ==
    { i \in 1..Len(handoff_rules[gn_current].conditions) :
        /\ gn_context.given
        /\ handoff_rules[gn_current].conditions[i][1] \in DOMAIN gn_context.flags
        /\ gn_context.flags[handoff_rules[gn_current].conditions[i][1]] = TRUE }

\* C8: get_next_agent(current, context) returned none for an unknown current
\* agent; otherwise the target of the first condition of current's rule, in
\* declaration order, that the context flags as true; otherwise the first
\* default target of the rule.
C8_GetNextAgentRule ==
    (hand_op = "get_next_agent") =>
        IF gn_current \notin DOMAIN handoff_rules
        THEN gn_result = None
        ELSE IF C8_Flagged # {}
        THEN \E i \in C8_Flagged :
                /\ \A j \in C8_Flagged : i <= j
                /\ gn_result = handoff_rules[gn_current].conditions[i][2]
        ELSE gn_result = handoff_rules[gn_current].next[1]

\* C8 witness: Data_Analyzer with needs_viz and needs_stats both flagged went
\* to Statistics_Analyst, the target of the condition declared first.
C8_Witness_FirstDeclaredConditionWins ==
    /\ hand_op = "get_next_agent"
    /\ gn_current = Data_Analyzer
    /\ gn_context = Context([ c \in { "needs_stats", "needs_viz" } |-> TRUE ])
    /\ gn_result = Statistics_Analyst

\* C23: get_handoff_chain(start, length) returned at most `length` entries,
\* the first being start, each following entry being get_next_agent of the
\* previous one with no context, and fewer than `length` entries only when
\* the lookup for the last entry returned none.
C23_Original_ChainWithinLength ==
    (hand_op = "get_handoff_chain") =>
        /\ Len(hc_chain) <= hc_length
        /\ Len(hc_chain) >= 1 => hc_chain[1] = hc_start
        /\ \A i \in 1..(Len(hc_chain) - 1) :
               hc_chain[i + 1] = GetNextAgent(handoff_rules, hc_chain[i], NoContext)
        /\ (Len(hc_chain) >= 1 /\ Len(hc_chain) < hc_length)
               => GetNextAgent(handoff_rules, hc_chain[Len(hc_chain)], NoContext)
                      = None

\* the names the rules hand over to: default and conditional targets
C29_Targets(rules) ==
    UNION { Range(rules[a].next) : a \in DOMAIN rules }
        \cup UNION { { rules[a].conditions[i][2] :
                          i \in 1..Len(rules[a].conditions) } : a \in DOMAIN rules }

\* C29: every default or conditional target of the handoff rules is itself a
\* key of the rules; get_handoff_chain from a known start agent with a length
\* of 1 or more returned exactly `length` entries, alternating between
\* Code_Executor and Data_Analyzer after the first; and the calls of
\* get_next_agent and get_handoff_chain left the rules as constructed.
C29_RulesAreClosed ==
    /\ handoff_rules = DefaultHandoffRules
    /\ C29_Targets(handoff_rules) \subseteq DOMAIN handoff_rules
    /\ (hand_op = "get_handoff_chain" /\ hc_start \in DOMAIN handoff_rules
            /\ hc_length >= 1)
         => /\ Len(hc_chain) = hc_length
            /\ \A i \in 2..Len(hc_chain) :
                  /\ hc_chain[i] \in { Data_Analyzer, Code_Executor }
                  /\ hc_chain[i] # hc_chain[i - 1]

\* C29 witness: after other calls, the chain of length 5 from
\* Statistics_Analyst has five entries and runs into the two-agent cycle.
C29_Witness_FullChainFromSpecialist ==
    /\ hand_op = "get_handoff_chain" /\ hand_earlier
    /\ hc_start = Statistics_Analyst /\ hc_length = 5
    /\ hc_chain = << Statistics_Analyst, Code_Executor, Data_Analyzer,
                     Code_Executor, Data_Analyzer >>

-----------------------------------------------------------------------------
(* Claims about the workflow patterns, checked under SpecPattern *)

\* C14: every call of create_handoff_pattern('comprehensive') returns exactly
\* [Data_Analyzer, Statistics_Analyst, Visualization_Specialist, Code_Executor],
\* 'simple' returns the two agents [Data_Analyzer, Code_Executor],
\* 'visualization' returns three agents, Visualization_Specialist among them,
\* whatever calls came before and whatever the caller did to the lists it was
\* returned.
C14_PatternsAreFixedLiterals ==
    (wp_called /\ ~wp_raised) =>
        /\ wp_type = "comprehensive" =>
              wp_returned = << Data_Analyzer, Statistics_Analyst,
                               Visualization_Specialist, Code_Executor >>
        /\ wp_type = "simple" =>
              wp_returned = << Data_Analyzer, Code_Executor >>
        /\ wp_type = "visualization" =>
              /\ Len(wp_returned) = 3
              /\ Visualization_Specialist \in Range(wp_returned)

\* C14 witness: the caller emptied a comprehensive list it holds, and the
\* latest call for 'comprehensive' still returned the four agents.
C14_Witness_AfterCallerChangedList ==
    /\ wp_called
    /\ wp_type = "comprehensive"
    /\ Len(wp_returned) = 4
    /\ Len(wp_heap) = 2
    /\ wp_heap[1] = [ pattern |-> "comprehensive", items |-> << >> ]
    /\ wp_heap[2].items = wp_returned

\* b is a transition the handoff rules allow from a: a's default target or
\* the target of one of a's conditions
C30_Allowed(a, b) ==
    /\ a \in DOMAIN handoff_rules
    /\ \/ b \in Range(handoff_rules[a].next)
       \/ \E i \in 1..Len(handoff_rules[a].conditions) :
              handoff_rules[a].conditions[i][2] = b

\* C30 as stated: in every pattern create_handoff_pattern returns, each agent
\* is followed by one the handoff rules allow after it.
C30_Original_PatternsFollowRules ==
    (wp_called /\ ~wp_raised) =>
        \A i \in 1..(Len(wp_returned) - 1) :
            C30_Allowed(wp_returned[i], wp_returned[i + 1])

\* C30: in every pattern create_handoff_pattern returns, each agent is
\* followed by one the handoff rules allow after it, except for one pair: in
\* the comprehensive pattern Statistics_Analyst is followed by
\* Visualization_Specialist, which the rules do not allow.
C30_PatternsFollowRulesButOnePair ==
    (wp_called /\ ~wp_raised) =>
        \A i \in 1..(Len(wp_returned) - 1) :
            C30_Allowed(wp_returned[i], wp_returned[i + 1])
                <=> ~(/\ wp_type = "comprehensive"
                      /\ wp_returned[i] = Statistics_Analyst
                      /\ wp_returned[i + 1] = Visualization_Specialist)

\* C30 witness: the comprehensive pattern was returned; its first and last
\* pairs are allowed by the rules, its middle pair is not.
C30_Witness_ComprehensiveMiddlePair ==
    /\ wp_called /\ ~wp_raised
    /\ wp_type = "comprehensive"
    /\ C30_Allowed(wp_returned[1], wp_returned[2])
    /\ ~C30_Allowed(wp_returned[2], wp_returned[3])
    /\ C30_Allowed(wp_returned[3], wp_returned[4])

-----------------------------------------------------------------------------
(* Claims about the state store, checked under SpecStateManager *)

\* C21 as stated: load_state(id) returns the state of the latest save of that
\* id, and None for an id never saved or deleted since its last save, whatever
\* was saved or deleted under other ids.
C21_Original_LoadReturnsLatestSave ==
    sm_op = "load_state" => sm_result = sm_saved[sm_id]

\* C26: after clear_old_sessions(keep_last), for every keep_last from 0 on, at
\* most keep_last sessions remain, they are the last keep_last of the sessions
\* listed before the call, in session-id order, and the returned number is the
\* number of sessions deleted.
C26_Original_KeepsOnlyLastSessions ==
    (sm_op = "clear_old_sessions") =>
        LET remaining == ListSessions(sm_files)
            before == Len(sm_before)
            kept == IF before > sm_keep_last THEN sm_keep_last ELSE before
        IN  /\ Len(remaining) <= sm_keep_last
            /\ remaining = SubSeq(sm_before, before - kept + 1, before)
            /\ sm_result = before - Len(remaining)

-----------------------------------------------------------------------------
(* Claims about retry_async, checked under SpecRetry *)

\* the waits the claim prescribes after `failed` failed attempts that are not
\* the last of max_retries: delay * 2^i after failed attempt i
C25_Waits(failed) ==
    [ i \in 1..(IF failed < rt_max_retries THEN failed ELSE rt_max_retries - 1)
        |-> rt_delay * (2 ^ (i - 1)) ]

\* C25: retry_async invoked func at most max_retries times; a call that
\* returned gave the value of the first successful attempt and made no further
\* invocation; a call that raised had made max_retries failed attempts and
\* raised the exception of the last of them; the waits were delay * 2^i after
\* failed attempt i, with none after the final failed attempt; for every
\* max_retries from 0 on.
C25_Original_RetryContract ==
    /\ rt_calls <= rt_max_retries
    /\ rt_pc = "returned"
        => /\ rt_result = AttemptValue(rt_calls - 1)
           /\ rt_waits = C25_Waits(rt_calls - 1)
    /\ rt_pc = "raised"
        => /\ rt_calls = rt_max_retries
           /\ rt_result = AttemptException(rt_max_retries - 1)
           /\ rt_waits = C25_Waits(rt_max_retries)
    /\ rt_pc = "loop" => rt_waits = C25_Waits(rt_calls)

-----------------------------------------------------------------------------
(* Claims about the session runners, checked under SpecSession *)

SessionEnded == pc \in { "done", "raised" }

\* C5: in each of the three runners, once an agent invocation has raised in
\* the middle of the session, stop_docker_container is not called before the
\* except clause is through and has been called exactly once when the session
\* has ended
C5_StopExactlyOnceAfterAgentRaises ==
    agent_raised =>
        /\ stop_calls = (IF SessionEnded THEN 1 ELSE 0)
        /\ SessionEnded => start_calls = 1

\* a cli session in which the second agent invocation raised has ended, with
\* one stop of the executor
C5_Witness_SecondInvocationRaised ==
    /\ runner = "cli"
    /\ agent_raised
    /\ Len(speakers) = 2
    /\ Len(history) = 2
    /\ pc = "done"
    /\ stop_calls = 1
    /\ result = "1"

\* the steps a team session may take between its states
C16_TeamSteps ==
    { << "none", "Idle" >>, << "Idle", "Running" >>, << "Running", "Stopped" >> }

\* the termination evaluator returns true on the history after this step's append
C16_EvaluatorTrueAfterAppend ==
    /\ history' # history
    /\ Len(history') >= 2
    /\ TeamTermination(TeamConfig(factory, MAX_ROUNDS), MAX_ROUNDS, history')

\* C16: a team session only moves Idle -> Running -> Stopped (after being
\* built); the step on which the termination evaluator returns true stops the
\* team, and in Stopped no agent is invoked and the state is not left.
C16_StoppedIsTerminal ==
    [][ /\ team_state' # team_state =>
              << team_state, team_state' >> \in C16_TeamSteps
        /\ C16_EvaluatorTrueAfterAppend => team_state' = "Stopped"
        /\ team_state = "Stopped" =>
              /\ team_state' = "Stopped"
              /\ speakers' = speakers
              /\ history' = history
              /\ in_flight' = None ]_vars

\* C16 witness: a session whose first agent said STOP has ended with one
\* invocation made, below the turn limit.
C16_Witness_StoppedByTokenStaysStopped ==
    /\ pc = "done"
    /\ team_state = "Stopped"
    /\ ~ agent_raised
    /\ history = << TaskMessage, TextMessage(Text_STOP) >>
    /\ Len(speakers) = 1
    /\ MAX_ROUNDS = MaxThreshold

\* the sandbox start was called and failed, and stop has not been called yet
C17_StartFailed ==
    /\ start_calls = 1
    /\ ~ docker_started
    /\ stop_calls = 0
    /\ pc # "start"

C18_InvocationFails ==
    /\ in_flight # None
    /\ in_flight' = None
    /\ agent_raised'

\* C18 as stated: when an agent invocation fails, the failure is appended to
\* the history as a message and handed to the termination evaluator, and the
\* session goes on (the runner stays in the stream, and the team stays Running
\* unless the evaluator returns true on the new history).
C18_Original_FailureBecomesMessage ==
    [][ (C18_InvocationFails /\ ~ agent_raised) =>
            /\ Len(history') = Len(history) + 1
            /\ pc' = "stream"
            /\ team_state' = "Stopped" =>
                  TeamTermination(TeamConfig(factory, MAX_ROUNDS), MAX_ROUNDS,
                                  history') ]_vars

\* C27: once the function that runs an api job has returned or raised,
\* whichever of its steps raised (building the model client or the team,
\* starting the sandbox, an agent's turn, stopping the sandbox), the job's
\* status is 'completed' or 'failed' and no longer 'running'.
C27_Original_JobNeverLeftRunning ==
    (runner = "api" /\ pc \in { "done", "raised" })
        => job_status \in { "completed", "failed" }

-----------------------------------------------------------------------------
(* Claims about the metrics of concurrent jobs, checked under SpecMetrics *)

\* C28: whatever the interleaving of the jobs, the session's task list holds,
\* for each job that called end_task, exactly one entry with that job's task
\* and the status the job ended with, and no dictionary appears in it twice.
C28_Original_OneEntryPerJob ==
    /\ \A j \in Jobs :
          mt_pc[j] = "ended" =>
              Cardinality({ i \in 1..Len(mt_tasks) :
                              /\ mt_dicts[mt_tasks[i]].task = j
                              /\ mt_dicts[mt_tasks[i]].status = mt_status[j] }) = 1
    /\ \A i, k \in 1..Len(mt_tasks) : mt_tasks[i] = mt_tasks[k] => i = k

-----------------------------------------------------------------------------
(* Claims about the rosters of the factories' teams, checked under SpecTeam *)

\* C15 as stated: in every team a factory built, every agent name the
\* selectors, the handoff rules and the workflow patterns refer to is the name
\* of an agent of that team's roster.
C15_Original_EveryReferencedNameInRoster ==
    team_state # "none" =>
        (SelectorNames \cup HandoffRuleNames(handoff_rules) \cup PatternNames)
            \subseteq TeamRoster(factory)

\* the agent messages of a history that match an error keyword: the count an
\* ErrorTermination instance called after every append would hold
C19_ErrorCount(msgs) ==
    Cardinality({ i \in 2..Len(msgs) :
                    ContainsAny(Lower(msgs[i].content), error_keywords) })

\* C19 as stated: the error-count and the stagnation rule (with their default
\* thresholds) are part of the evaluator of every factory's team: after the
\* append at which the error count reaches max_errors, or at which the last N
\* messages are identical, the team is Stopped.
C19_Original_RepeatedFailuresStop ==
    (Len(history) >= 2 /\ in_flight = None /\ ~ agent_raised
        /\ \/ C19_ErrorCount(history) >= DefaultMaxErrors
           \/ StuckConversationTerminationCall(DefaultRepetitionThreshold, history))
        => team_state = "Stopped"

\* the invocations made whose output is neither appended nor raised
C20_InFlightCount ==
    Len(speakers) - (IF history = << >> THEN 0 ELSE Len(history) - 1)
                  - (IF agent_raised THEN 1 ELSE 0)

\* C20: in a team session at most one agent invocation is in flight at any
\* time; the next agent is selected and invoked only when the output of every
\* earlier invocation has been appended to the history, and the team is
\* stopped by the evaluator only on the step that appends an output (or on the
\* step an invocation raises).
C20_TurnsAreSequential ==
    /\ [] /\ C20_InFlightCount \in { 0, 1 }
          /\ in_flight # None <=> C20_InFlightCount = 1
    /\ [][ /\ speakers' # speakers =>
                 /\ C20_InFlightCount = 0
                 /\ Len(history) = Len(speakers) + 1
           /\ (team_state = "Running" /\ team_state' = "Stopped") =>
                 \/ Len(history') = Len(history) + 1
                 \/ (agent_raised' /\ ~ agent_raised) ]_vars

\* C20 witness: in the selector team the third invocation is in flight, the
\* outputs of the first two being in the history after the task.
C20_Witness_ThirdInvocationInFlight ==
    /\ factory = "selector"
    /\ Len(speakers) = 3
    /\ Len(history) = 3
    /\ in_flight = speakers[3]
    /\ team_state = "Running"

-----------------------------------------------------------------------------
(* Claims about the teams of the factories, checked under FairSpecTeam *)

\* C6: whatever the agents return and whichever invocations raise, a team of
\* any factory never takes more than MAX_ROUNDS turns and eventually reaches
\* Stopped
C6_SessionStopsWithinMaxRounds ==
    /\ [](Len(speakers) <= MAX_ROUNDS)
    /\ <>(team_state = "Stopped")

\* a basic team whose agents never mention a stop token and never raise is
\* stopped by the turn limit alone
C6_Witness_StoppedByTurnLimit ==
    /\ factory = "basic"
    /\ MAX_ROUNDS = MaxThreshold
    /\ team_state = "Stopped"
    /\ ~ agent_raised
    /\ Len(speakers) = MAX_ROUNDS
    /\ \A i \in 1..Len(history) : history[i] # TextMessage(Text_STOP)

====
